---- MODULE Spec2Model ----
(***************************************************************************)
(* Quiz-room session engine of multiple-choice-quizzes-BE.                 *)
(*                                                                         *)
(* The model follows the socket handlers of SocketService                  *)
(* (src/config/database.js), the room registry RoomService                 *)
(* (src/unnamed/part_003) and the session engine DoQuizService             *)
(* (src/services/doQuizzService.js).  Node runs every handler and timer    *)
(* callback to completion on one thread, so each handler is one action;    *)
(* the only suspension point that lets other events in is the quiz fetch   *)
(* awaited by createRoom, which is split in two actions.                   *)
(***************************************************************************)
EXTENDS Integers, Sequences, FiniteSets, TLC

\* Bounds of the model.
NumConns == 2
NumQuestions == 2
NumOptions == 2

\* Program constant: room.maxParticipants.
maxParticipants == 50

\* Bound on the outcomes of the random draws of generateRoomCode.
NumCodes == 3

\* Program constants: the alphabet and the length of a room code.
chars == <<"A", "B", "C", "D", "E", "F", "G", "H", "I", "J", "K", "L", "M", "N", "O", "P", "Q", "R",
           "S", "T", "U", "V", "W", "X", "Y", "Z", "0", "1", "2", "3", "4", "5", "6", "7", "8", "9">>
CodeLen == 6

Conns == 1..NumConns

\* generateRoomCode's loop: one character per draw, chars.charAt(draw).
RECURSIVE buildCode(_, _)
buildCode(result, draws) ==
  IF draws = <<>> THEN result
  ELSE buildCode(Append(result, chars[Head(draws) + 1]), Tail(draws))

\* The draws considered: the last of the CodeLen draws takes one of the first
\* n indices, the others are 0.
Draws(n) == {[i \in 1..CodeLen |-> IF i = CodeLen THEN k ELSE 0] : k \in 0..(n - 1)}

\* The codes the generator can produce: one code under the socket handlers,
\* NumCodes codes when RoomService is called directly.
RoomCodes == {buildCode(<<>>, d) : d \in Draws(1)}
ServiceCodes == {buildCode(<<>>, d) : d \in Draws(NumCodes)}
NoCode == <<>>
\* Player ids are random 8-character tokens with no uniqueness check.  Up to
\* renaming, a fresh id is either new (named after the joining connection)
\* or equal to the id of a participant already in the room.
PlayerIds == Conns
NoIndex == -1

VARIABLES
  rooms,          \* roomService.rooms: room code -> room
  activeQuizzes,  \* doQuizService.activeQuizzes: room code -> quiz session
  questionTimers, \* doQuizService.questionTimers: room code -> armed timer
  user,           \* connection -> socket.user: the verified user id, 0 for none
  connected,      \* connection -> socket still connected
  sockRoom,       \* connection -> socket.roomCode
  joined,         \* connection -> socket.io rooms the socket has joined
  pendingCreate,  \* connections whose create-room awaits the quiz fetch
  out,            \* events emitted by the last handler, in order
  finalResults,   \* what endQuiz returned in the last handler, <<>> if it did not run
  replaced,       \* the last handler was a submit-answer that took submitAnswer's
                  \* "update the existing answer" branch
  timers,         \* roomService.timers: the room codes with an armed question timer
  thrown,         \* what the last direct call of a RoomService method threw, "" if
                  \* it returned
  quizzes,        \* the stored document of the quiz the rooms are created from:
                  \* its questions, <<>> when the quiz is not stored
  delayed         \* the pending callbacks of the earlier SocketService: the room
                  \* code and, of a delayed auto-advance, the user id it will
                  \* call advanceToNextQuestion with and, for the analysis, the
                  \* question that was current when it was left

vars == <<rooms, activeQuizzes, questionTimers, user, connected, sockRoom, joined,
          pendingCreate, out, finalResults, replaced, timers, thrown, quizzes, delayed>>

\* The quiz snapshot: question i has correctAnswerIndex i mod NumOptions.
correctAnswerIndex(i) == i % NumOptions
totalQuestions == NumQuestions

\* The document of that quiz: its questions, each with its text, its
\* options and the index of the correct option.
TheQuiz ==
  [i \in 1..NumQuestions |->
     [questionText |-> 0, options |-> 0, correctAnswerIndex |-> correctAnswerIndex(i - 1)]]

\* Quiz.findById finds nothing.
NoQuiz == <<>>

NoRoom == [live |-> FALSE, hostId |-> 0, participants |-> <<>>,
           isActive |-> FALSE, isCompleted |-> FALSE, currentQuestion |-> 0,
           quizData |-> NoQuiz]

NoSession == [exists |-> FALSE, isActive |-> FALSE, currentQuestionIndex |-> 0,
              participants |-> <<>>, questions |-> NoQuiz,
              scores |-> [p \in PlayerIds |-> 0],
              answers |-> [p \in PlayerIds |-> <<>>],
              submitted |-> {}]

NoTimer == [armed |-> FALSE, io |-> FALSE, question |-> 0]

\* socket.user as the authentication middleware sets it when the socket
\* connects: null (0) without a token, else the user the token names, one
\* user per connection.
Users(c) == {0, c}

(***************************************************************************)
(* Participants maps (socketId => participant) keep insertion order; they  *)
(* are sequences of participant records with pairwise distinct sock.       *)
(***************************************************************************)
Has(parts, c) == \E i \in DOMAIN parts : parts[i].sock = c

PlayerIdOf(parts, c) == parts[CHOOSE i \in DOMAIN parts : parts[i].sock = c].playerId

Delete(parts, c) == SelectSeq(parts, LAMBDA p : p.sock # c)

\* io.to(roomCode): the connected sockets that joined the socket.io room.
Members(code) == {c \in Conns : connected[c] /\ code \in joined[c]}

\* An emitted event: its name, the connections it is sent to, the question
\* index its payload carries (NoIndex for none), whether its payload holds the
\* final results, and the message of an error event.
Ev(ev, to, q, res, msg) == [ev |-> ev, to |-> to, q |-> q, results |-> res, msg |-> msg]

(***************************************************************************)
(* RoomService                                                             *)
(***************************************************************************)
isHost(code, c) ==
  /\ rooms[code].live
  /\ Has(rooms[code].participants, c)
  /\ rooms[code].participants[1].sock = c

\* generateRoomCode without the uniqueness check.
generateRoomCodeUnchecked == DOMAIN rooms

\* generateRoomCode: a random code, drawn again while it is the code of a
\* live room.  The domain of rooms holds the codes the draws can produce.
generateRoomCode == {code \in DOMAIN rooms : ~rooms[code].live}

\* generatePlayerId, up to renaming of ids.
generatePlayerId(room, c) == {c} \cup {room.participants[i].playerId : i \in DOMAIN room.participants}

\* createRoom: the room it registers once the quiz is fetched.
createRoom(hostId, quiz) ==
  [live |-> TRUE, hostId |-> hostId, participants |-> <<>>,
   isActive |-> FALSE, isCompleted |-> FALSE, currentQuestion |-> 0,
   quizData |-> quiz]

\* joinRoomErr without the capacity check.
joinRoomErrNoCapacity(room, c) ==
  IF ~room.live THEN "Room not found"
  ELSE IF room.isCompleted THEN "Quiz has already ended"
  ELSE IF Has(room.participants, c) THEN "Already joined this room"
  ELSE ""

\* The checks of joinRoom, in order.
joinRoomErr(room, c) ==
  IF ~room.live THEN "Room not found"
  ELSE IF room.isCompleted THEN "Quiz has already ended"
  ELSE IF Len(room.participants) >= maxParticipants THEN "Room is full"
  ELSE IF Has(room.participants, c) THEN "Already joined this room"
  ELSE ""

\* joinRoom with the newcomer put in front of the participants.
joinRoomInFront(room, c, pid) ==
  [room EXCEPT !.participants =
                 <<[sock |-> c, playerId |-> pid, answers |-> <<>>, score |-> 0]>> \o @]

joinRoom(room, c, pid) ==
  [room EXCEPT !.participants =
                 Append(@, [sock |-> c, playerId |-> pid, answers |-> <<>>, score |-> 0])]

\* leaveRoom with the room deleted whoever is left in it.
leaveRoomDeletesRoom(room, c) == NoRoom

\* leaveRoom: remove the participant, delete the room when it is empty.
leaveRoom(room, c) ==
  LET r == [room EXCEPT !.participants = Delete(@, c)]
  IN IF Len(r.participants) = 0 THEN NoRoom ELSE r

(***************************************************************************)
(* DoQuizService                                                           *)
(***************************************************************************)
isQuizActive(code) ==
  IF activeQuizzes[code].exists THEN activeQuizzes[code].isActive ELSE FALSE

HasAnswer(list, idx) == \E i \in DOMAIN list : list[i].questionIndex = idx

\* Array.find / findIndex: the first record for the index.
FindIndex(list, idx) ==
  CHOOSE i \in DOMAIN list :
    /\ list[i].questionIndex = idx
    /\ \A j \in 1..(i - 1) : list[j].questionIndex # idx

\* Array.splice(i, 1)
Splice(list, i) == [j \in 1..(Len(list) - 1) |-> IF j < i THEN list[j] ELSE list[j + 1]]

\* startQuiz with the questions fetched again from the store.
startQuizSessionRefetched(quizData, participants) ==
  [exists |-> TRUE, isActive |-> TRUE, currentQuestionIndex |-> 0,
   participants |-> participants, questions |-> quizzes,
   scores |-> [p \in PlayerIds |-> 0],
   answers |-> [p \in PlayerIds |-> <<>>],
   submitted |-> {}]

startQuizSession(quizData, participants) ==
  [exists |-> TRUE, isActive |-> TRUE, currentQuestionIndex |-> 0,
   participants |-> participants, questions |-> quizData,
   scores |-> [p \in PlayerIds |-> 0],
   answers |-> [p \in PlayerIds |-> <<>>],
   submitted |-> {}]

submitAnswerErr(s, c) ==
  IF ~s.exists THEN "Quiz session not found"
  ELSE IF ~s.isActive THEN "Quiz is not active"
  ELSE IF ~Has(s.participants, c) THEN "Participant not found"
  ELSE IF s.currentQuestionIndex >= totalQuestions THEN "No active question"
  ELSE ""

\* scoreAfter with the old contribution left in on an update.
scoreAfterReAdded(currentScore, existing, wasCorrect, isCorrect) ==
  IF isCorrect THEN currentScore + 1 ELSE currentScore

\* scoreAfter with an update treated as a wrong answer turned right.
scoreAfterOneWay(currentScore, existing, wasCorrect, isCorrect) ==
  IF existing
  THEN currentScore + (IF isCorrect /\ ~wasCorrect THEN 1 ELSE 0)
  ELSE IF isCorrect THEN currentScore + 1 ELSE currentScore

\* The score submitAnswer stores: on an update the old contribution is taken
\* out and the new one added, on a first answer a correct answer adds one.
scoreAfter(currentScore, existing, wasCorrect, isCorrect) ==
  IF existing
  THEN currentScore - (IF wasCorrect THEN 1 ELSE 0) + (IF isCorrect THEN 1 ELSE 0)
  ELSE IF isCorrect THEN currentScore + 1 ELSE currentScore

\* answersAfter without the splice.
answersAfterKeptOld(participantAnswers, idx, answerData) ==
  Append(participantAnswers, answerData)

\* The answer list submitAnswer stores: the record for the index, if any, is
\* spliced out and the new record pushed.
answersAfter(participantAnswers, idx, answerData) ==
  IF HasAnswer(participantAnswers, idx)
  THEN Append(Splice(participantAnswers, FindIndex(participantAnswers, idx)), answerData)
  ELSE Append(participantAnswers, answerData)

\* submitAnswer past its checks.  Scores and answers are keyed by player id.
submitAnswer(s, c, answerIndex) ==
  LET pid == PlayerIdOf(s.participants, c)
      idx == s.currentQuestionIndex
      participantAnswers == s.answers[pid]
      existing == HasAnswer(participantAnswers, idx)
      isCorrect == (answerIndex = correctAnswerIndex(idx))
      wasCorrect == existing /\ participantAnswers[FindIndex(participantAnswers, idx)].isCorrect
      answerData == [questionIndex |-> idx, answerIndex |-> answerIndex, isCorrect |-> isCorrect]
  IN [s EXCEPT !.scores[pid] = scoreAfter(@, existing, wasCorrect, isCorrect),
               !.answers[pid] = answersAfter(participantAnswers, idx, answerData),
               !.submitted = @ \cup {<<pid, idx>>}]

RECURSIVE saveNoAnswerFrom(_, _)
saveNoAnswerFrom(s, i) ==
  IF i > Len(s.participants) THEN s
  ELSE LET pid == s.participants[i].playerId
           idx == s.currentQuestionIndex
           noAnswerData == [questionIndex |-> idx, answerIndex |-> -1, isCorrect |-> FALSE]
       IN IF HasAnswer(s.answers[pid], idx)
          THEN saveNoAnswerFrom(s, i + 1)
          ELSE saveNoAnswerFrom([s EXCEPT !.answers[pid] = Append(@, noAnswerData)], i + 1)

\* saveNoAnswerForCurrentQuestion left out of nextQuestion.
saveNoAnswerSkipped(s) == s

\* saveNoAnswerForCurrentQuestion: every session participant without a record
\* for the current index gets the no-answer record.
saveNoAnswerForCurrentQuestion(s) == saveNoAnswerFrom(s, 1)

\* endQuiz: the final results, one entry per session participant.  submitted
\* is history kept for the analysis: the question indices for which a
\* submission under the entry's player id was accepted.
endQuiz(s) ==
  [i \in DOMAIN s.participants |->
     [playerId |-> s.participants[i].playerId,
      score |-> s.scores[s.participants[i].playerId],
      answers |-> s.answers[s.participants[i].playerId],
      submitted |-> {q \in 0..(totalQuestions - 1) :
                       <<s.participants[i].playerId, q>> \in s.submitted}]]

\* nextQuestion with startQuestion left out: the timer is cleared and not
\* armed again.
nextQuestionNoTimer(s, io) ==
  LET s1 == saveNoAnswerForCurrentQuestion(s)
      s2 == [s1 EXCEPT !.currentQuestionIndex = @ + 1]
  IN IF s2.currentQuestionIndex >= totalQuestions
     THEN [session |-> NoSession, timer |-> NoTimer, results |-> endQuiz(s2),
           emit |-> IF io THEN <<[ev |-> "quiz-completed", q |-> NoIndex, results |-> TRUE]>>
                    ELSE <<>>]
     ELSE [session |-> s2, timer |-> NoTimer, results |-> <<>>,
           emit |-> IF io THEN <<[ev |-> "next-question", q |-> s2.currentQuestionIndex,
                                  results |-> FALSE]>>
                    ELSE <<>>]

\* nextQuestion(roomCode, io) on an existing session: the session, timer and
\* broadcasts it leaves behind.  io is the gateway handed down by the caller;
\* without it nothing is emitted.
nextQuestion(s, io) ==
  LET s1 == saveNoAnswerForCurrentQuestion(s)
      s2 == [s1 EXCEPT !.currentQuestionIndex = @ + 1]
  IN IF s2.currentQuestionIndex >= totalQuestions
     THEN [session |-> NoSession, timer |-> NoTimer, results |-> endQuiz(s2),
           emit |-> IF io THEN <<[ev |-> "quiz-completed", q |-> NoIndex, results |-> TRUE]>>
                    ELSE <<>>]
     ELSE [session |-> s2,
           timer |-> [armed |-> TRUE, io |-> io, question |-> s2.currentQuestionIndex],
           results |-> <<>>,
           emit |-> IF io THEN <<[ev |-> "next-question", q |-> s2.currentQuestionIndex,
                                  results |-> FALSE]>>
                    ELSE <<>>]

\* The broadcasts of nextQuestion, addressed to the socket.io room.
ToRoom(emit, code) ==
  [i \in DOMAIN emit |-> Ev(emit[i].ev, Members(code), emit[i].q, emit[i].results, "")]

(***************************************************************************)
(* SocketService handlers                                                  *)
(***************************************************************************)
Init ==
  /\ rooms = [code \in RoomCodes |-> NoRoom]
  /\ activeQuizzes = [code \in RoomCodes |-> NoSession]
  /\ questionTimers = [code \in RoomCodes |-> NoTimer]
  /\ user \in {u \in [Conns -> 0..NumConns] : \A c \in Conns : u[c] \in Users(c)}
  /\ connected = [c \in Conns |-> TRUE]
  /\ sockRoom = [c \in Conns |-> NoCode]
  /\ joined = [c \in Conns |-> {}]
  /\ pendingCreate = {}
  /\ out = <<>>
  /\ finalResults = <<>>
  /\ replaced = FALSE
  /\ timers = {}
  /\ thrown = ""
  /\ delayed = {}
  /\ quizzes = TheQuiz

\* The error sent to every connection instead of the requester.
ErrorToAll(c, msg) == <<Ev("error", Conns, NoIndex, FALSE, msg)>>

\* socket.emit('error', { message })
Error(c, msg) == <<Ev("error", {c}, NoIndex, FALSE, msg)>>

\* create-room up to the await of the quiz fetch.
CreateRoomBegin(c) ==
  /\ UNCHANGED <<timers, thrown, delayed, quizzes>>
  /\ replaced' = FALSE
  /\ connected[c]
  /\ c \notin pendingCreate
  /\ IF user[c] = 0
     THEN /\ out' = Error(c, "Authentication required to create rooms")
          /\ UNCHANGED pendingCreate
     ELSE /\ pendingCreate' = pendingCreate \cup {c}
          /\ out' = <<>>
  /\ finalResults' = <<>>
  /\ UNCHANGED <<rooms, activeQuizzes, questionTimers, user, connected, sockRoom, joined>>

\* create-room after the fetch: createRoom registers the room under a fresh
\* code, the socket joins the socket.io room and becomes first participant.
CreateRoomFinish(c, found) ==
  /\ UNCHANGED <<timers, thrown, delayed, quizzes>>
  /\ replaced' = FALSE
  /\ c \in pendingCreate
  /\ found => quizzes # NoQuiz
  /\ pendingCreate' = pendingCreate \ {c}
  /\ finalResults' = <<>>
  /\ IF ~found
     THEN /\ out' = IF connected[c] THEN Error(c, "Quiz not found") ELSE <<>>
          /\ UNCHANGED <<rooms, sockRoom, joined>>
     ELSE \E code \in generateRoomCode : \E pid \in generatePlayerId(NoRoom, c) :
          /\ rooms' = [rooms EXCEPT ![code] = joinRoom(createRoom(user[c], quizzes), c, pid)]
          /\ sockRoom' = [sockRoom EXCEPT ![c] = code]
          /\ joined' = IF connected[c] THEN [joined EXCEPT ![c] = @ \cup {code}] ELSE joined
          /\ out' = IF connected[c]
                    THEN <<Ev("room-created", {c}, NoIndex, FALSE, "")>> ELSE <<>>
  /\ UNCHANGED <<activeQuizzes, questionTimers, user, connected>>

\* join-room
JoinRoom(c, code) ==
  /\ UNCHANGED <<timers, thrown, delayed, quizzes>>
  /\ replaced' = FALSE
  /\ connected[c]
  /\ finalResults' = <<>>
  /\ LET err == joinRoomErr(rooms[code], c)
     IN IF err # ""
        THEN /\ out' = Error(c, err)
             /\ UNCHANGED <<rooms, sockRoom, joined>>
        ELSE \E pid \in generatePlayerId(rooms[code], c) :
             /\ rooms' = [rooms EXCEPT ![code] = joinRoom(@, c, pid)]
             /\ sockRoom' = [sockRoom EXCEPT ![c] = code]
             /\ joined' = [joined EXCEPT ![c] = @ \cup {code}]
             /\ out' = <<Ev("room-joined", {c}, NoIndex, FALSE, ""),
                         Ev("participant-joined", Members(code) \cup {c}, NoIndex, FALSE, "")>>
  /\ UNCHANGED <<activeQuizzes, questionTimers, user, connected, pendingCreate>>

\* The start-quiz checks without the host check.
startQuizErrAnyone(c, code) ==
  IF user[c] = 0 THEN "Authentication required to start quiz"
  ELSE IF ~rooms[code].live THEN "Room not found"
  ELSE ""

\* The start-quiz checks without the authentication check.
startQuizErrNoAuth(c, code) ==
  IF ~rooms[code].live THEN "Room not found"
  ELSE IF ~isHost(code, c) THEN "Only the host can start the quiz"
  ELSE ""

\* The checks of the start-quiz handler, in order; "" when all pass.
startQuizErr(c, code) ==
  IF user[c] = 0 THEN "Authentication required to start quiz"
  ELSE IF ~rooms[code].live THEN "Room not found"
  ELSE IF ~isHost(code, c) THEN "Only the host can start the quiz"
  ELSE ""

\* start-quiz: doQuizService.startQuiz installs a new session for the room
\* code and startQuestion clears the armed timer and arms a new one.
StartQuiz(c, code) ==
  /\ UNCHANGED <<timers, thrown, delayed, quizzes>>
  /\ replaced' = FALSE
  /\ connected[c]
  /\ finalResults' = <<>>
  /\ LET err == startQuizErr(c, code)
     IN IF err # ""
        THEN /\ out' = Error(c, err)
             /\ UNCHANGED <<activeQuizzes, questionTimers>>
        ELSE /\ activeQuizzes' = [activeQuizzes EXCEPT
                                    ![code] = startQuizSession(rooms[code].quizData, rooms[code].participants)]
             /\ questionTimers' = [questionTimers EXCEPT
                                     ![code] = [armed |-> TRUE, io |-> TRUE, question |-> 0]]
             /\ out' = <<Ev("quiz-started", Members(code), 0, FALSE, "")>>
  /\ UNCHANGED <<rooms, user, connected, sockRoom, joined, pendingCreate>>

\* The checks of the submit-answer handler and of submitAnswer, in order.
submitErr(c, code) ==
  IF ~isQuizActive(code) THEN "Quiz is not active"
  ELSE submitAnswerErr(activeQuizzes[code], c)

\* submit-answer.  The payload carries the room code and the answer only;
\* seen is the question index the client was showing when it sent the event,
\* which the server never learns.
SubmitAnswer(c, code, answer, seen) ==
  /\ UNCHANGED <<timers, thrown, delayed, quizzes>>
  /\ connected[c]
  /\ finalResults' = <<>>
  /\ seen \in 0..(IF activeQuizzes[code].exists
                  THEN activeQuizzes[code].currentQuestionIndex
                  ELSE totalQuestions - 1)
  /\ IF submitErr(c, code) # ""
     THEN /\ out' = Error(c, submitErr(c, code))
          /\ replaced' = FALSE
          /\ UNCHANGED activeQuizzes
     ELSE /\ activeQuizzes' = [activeQuizzes EXCEPT ![code] = submitAnswer(@, c, answer)]
          /\ replaced' = HasAnswer(activeQuizzes[code].answers[
                                     PlayerIdOf(activeQuizzes[code].participants, c)],
                                   activeQuizzes[code].currentQuestionIndex)
          /\ out' = <<Ev("answer-submitted", {c}, NoIndex, FALSE, ""),
                      Ev("leaderboard-updated", Members(code), NoIndex, FALSE, "")>>
  /\ UNCHANGED <<rooms, questionTimers, user, connected, sockRoom, joined, pendingCreate>>

\* next-quiz: nextQuestion is called without the gateway and returns a
\* promise, so the handler always takes its next-question branch and sends
\* the promise as the question.
NextQuiz(c, code) ==
  /\ UNCHANGED <<timers, thrown, delayed, quizzes>>
  /\ replaced' = FALSE
  /\ connected[c]
  /\ IF ~isQuizActive(code)
     THEN /\ out' = Error(c, "Quiz is not active")
          /\ finalResults' = <<>>
          /\ UNCHANGED <<activeQuizzes, questionTimers>>
     ELSE LET r == nextQuestion(activeQuizzes[code], FALSE)
          IN /\ activeQuizzes' = [activeQuizzes EXCEPT ![code] = r.session]
             /\ questionTimers' = [questionTimers EXCEPT ![code] = r.timer]
             /\ finalResults' = r.results
             /\ out' = ToRoom(r.emit, code)
                         \o <<Ev("next-question", Members(code), NoIndex, FALSE, "")>>
  /\ UNCHANGED <<rooms, user, connected, sockRoom, joined, pendingCreate>>

\* get-leaderboard: doQuizService.getLeaderboard returns an array, empty
\* without a session, so the handler never takes its 'Room not found' branch
\* and answers the requester with leaderboard-data.
GetLeaderboard(c, code) ==
  /\ connected[c]
  /\ out' = <<Ev("leaderboard-data", {c}, NoIndex, FALSE, "")>>
  /\ finalResults' = <<>>
  /\ replaced' = FALSE
  /\ UNCHANGED <<rooms, activeQuizzes, questionTimers, user, connected, sockRoom, joined,
                 pendingCreate, timers, thrown, delayed, quizzes>>

\* check-room-status: room-cancelled for a code without a room, room-status
\* otherwise, to the requester.
CheckRoomStatus(c, code) ==
  /\ connected[c]
  /\ out' = IF rooms[code].live
            THEN <<Ev("room-status", {c}, NoIndex, FALSE, "")>>
            ELSE <<Ev("room-cancelled", {c}, NoIndex, FALSE, "")>>
  /\ finalResults' = <<>>
  /\ replaced' = FALSE
  /\ UNCHANGED <<rooms, activeQuizzes, questionTimers, user, connected, sockRoom, joined,
                 pendingCreate, timers, thrown, delayed, quizzes>>

\* The question timer fires: the callback calls nextQuestion with the
\* gateway that startQuestion was given when it armed the timer.
TimerFire(code) ==
  /\ UNCHANGED <<timers, thrown, delayed, quizzes>>
  /\ replaced' = FALSE
  /\ questionTimers[code].armed
  /\ IF ~activeQuizzes[code].exists
     THEN /\ questionTimers' = [questionTimers EXCEPT ![code] = NoTimer]
          /\ out' = <<>>
          /\ finalResults' = <<>>
          /\ UNCHANGED activeQuizzes
     ELSE LET r == nextQuestion(activeQuizzes[code], questionTimers[code].io)
          IN /\ activeQuizzes' = [activeQuizzes EXCEPT ![code] = r.session]
             /\ questionTimers' = [questionTimers EXCEPT ![code] = r.timer]
             /\ finalResults' = r.results
             /\ out' = ToRoom(r.emit, code)
  /\ UNCHANGED <<rooms, user, connected, sockRoom, joined, pendingCreate>>

\* disconnect: the host's departure cancels the room (roomService.cancelRoom),
\* any other participant is removed (roomService.leaveRoom).
Disconnect(c) ==
  /\ UNCHANGED <<timers, thrown, delayed, quizzes>>
  /\ replaced' = FALSE
  /\ connected[c]
  /\ connected' = [connected EXCEPT ![c] = FALSE]
  /\ joined' = [joined EXCEPT ![c] = {}]
  /\ finalResults' = <<>>
  /\ LET code == sockRoom[c]
     IN IF code # NoCode /\ rooms[code].live /\ Has(rooms[code].participants, c)
        THEN IF isHost(code, c)
             THEN /\ out' = <<Ev("room-cancelled", Members(code) \ {c}, NoIndex, FALSE, "")>>
                  /\ rooms' = [rooms EXCEPT ![code] = NoRoom]
             ELSE /\ out' = <<Ev("participant-left", Members(code) \ {c}, NoIndex, FALSE, "")>>
                  /\ rooms' = [rooms EXCEPT ![code] = leaveRoom(@, c)]
        ELSE /\ out' = <<>>
             /\ UNCHANGED rooms
  /\ UNCHANGED <<activeQuizzes, questionTimers, user, sockRoom, pendingCreate>>

Next ==
  \/ \E c \in Conns : CreateRoomBegin(c)
  \/ \E c \in Conns, found \in BOOLEAN : CreateRoomFinish(c, found)
  \/ \E c \in Conns, code \in RoomCodes : JoinRoom(c, code)
  \/ \E c \in Conns, code \in RoomCodes : StartQuiz(c, code)
  \/ \E c \in Conns, code \in RoomCodes, answer \in 0..(NumOptions - 1), seen \in 0..(NumQuestions - 1) :
       SubmitAnswer(c, code, answer, seen)
  \/ \E c \in Conns, code \in RoomCodes : NextQuiz(c, code)
  \/ \E c \in Conns, code \in RoomCodes : GetLeaderboard(c, code)
  \/ \E c \in Conns, code \in RoomCodes : CheckRoomStatus(c, code)
  \/ \E code \in RoomCodes : TimerFire(code)
  \/ \E c \in Conns : Disconnect(c)

Spec == Init /\ [][Next]_vars

(***************************************************************************)
(* The socket handlers with the quiz left to its timers: start-quiz is sent *)
(* only for a room whose quiz is not running, and nobody sends next-quiz    *)
(* or submit-answer.  A timer that is armed fires in the end.               *)
(***************************************************************************)
TimerNext ==
  \/ \E c \in Conns : CreateRoomBegin(c)
  \/ \E c \in Conns, found \in BOOLEAN : CreateRoomFinish(c, found)
  \/ \E c \in Conns, code \in RoomCodes : JoinRoom(c, code)
  \/ \E c \in Conns, code \in RoomCodes : ~isQuizActive(code) /\ StartQuiz(c, code)
  \/ \E code \in RoomCodes : TimerFire(code)
  \/ \E c \in Conns : Disconnect(c)

TimerSpec ==
  Init /\ [][TimerNext]_vars /\ \A code \in RoomCodes : WF_vars(TimerFire(code))

(***************************************************************************)
(* RoomService called directly: its methods createRoom, joinRoom,          *)
(* leaveRoom, startQuiz, submitAnswer, nextQuestion, cancelRoom and        *)
(* deleteRoom and the callback of its question timer, in any order.  The   *)
(* callers are sockets (Conns) and user ids (1..NumConns).                 *)
(***************************************************************************)
socketVars == <<activeQuizzes, questionTimers, user, connected, sockRoom, joined,
                out, finalResults, replaced, delayed, quizzes>>

IndexOf(parts, c) == CHOOSE i \in DOMAIN parts : parts[i].sock = c

\* The checks of startQuiz without the participant count.
roomStartQuizErrAnyCount(room, hostId) ==
  IF ~room.live THEN "Room not found"
  ELSE IF room.hostId # hostId THEN "Only the host can start the quiz"
  ELSE IF room.isActive THEN "Quiz is already active"
  ELSE ""

\* The checks of startQuiz, in order; "" when all pass.
roomStartQuizErr(room, hostId) ==
  IF ~room.live THEN "Room not found"
  ELSE IF room.hostId # hostId THEN "Only the host can start the quiz"
  ELSE IF room.isActive THEN "Quiz is already active"
  ELSE IF Len(room.participants) = 0 THEN "Cannot start quiz with no participants"
  ELSE ""

roomStartQuiz(room) == [room EXCEPT !.isActive = TRUE, !.currentQuestion = 0]

roomSubmitAnswerErr(room, c) ==
  IF ~room.live THEN "Room not found"
  ELSE IF ~room.isActive THEN "Quiz is not active"
  ELSE IF ~Has(room.participants, c) THEN "Participant not found"
  ELSE IF HasAnswer(room.participants[IndexOf(room.participants, c)].answers,
                    room.currentQuestion)
       THEN "Already answered this question"
  ELSE ""

roomSubmitAnswer(room, c, answer) ==
  LET i == IndexOf(room.participants, c)
      isCorrect == (answer = correctAnswerIndex(room.currentQuestion))
  IN [room EXCEPT
        !.participants[i].answers =
           Append(@, [questionIndex |-> room.currentQuestion, answerIndex |-> answer,
                      isCorrect |-> isCorrect]),
        !.participants[i].score = IF isCorrect THEN @ + 1 ELSE @]

roomNextQuestionErr(room, hostId) ==
  IF ~room.live THEN "Room not found"
  ELSE IF room.hostId # hostId THEN "Only the host can advance questions"
  ELSE IF ~room.isActive THEN "Quiz is not active"
  ELSE ""

roomNextQuestion(room) ==
  IF room.currentQuestion + 1 >= totalQuestions
  THEN [room EXCEPT !.currentQuestion = @ + 1, !.isActive = FALSE, !.isCompleted = TRUE]
  ELSE [room EXCEPT !.currentQuestion = @ + 1]

\* One step of the sort with an entry put before the entries it ties with.
sortInsertBeforeTies(sorted, e) ==
  LET before == {i \in DOMAIN sorted : sorted[i].score > e.score}
      k == Cardinality(before)
  IN SubSeq(sorted, 1, k) \o <<e>> \o SubSeq(sorted, k + 1, Len(sorted))

\* One step of Array.prototype.sort with (a, b) => b.score - a.score, a
\* stable sort: e goes behind the entries whose score is not smaller.
sortInsert(sorted, e) ==
  LET before == {i \in DOMAIN sorted : sorted[i].score >= e.score}
      k == Cardinality(before)
  IN SubSeq(sorted, 1, k) \o <<e>> \o SubSeq(sorted, k + 1, Len(sorted))

RECURSIVE sortByScore(_, _)
sortByScore(sorted, rest) ==
  IF rest = <<>> THEN sorted ELSE sortByScore(sortInsert(sorted, Head(rest)), Tail(rest))

\* RoomService.getLeaderboard: the participants in join order, mapped to
\* entries and sorted.  from is the socket of the participant an entry was
\* mapped from, kept for the analysis in place of the name.
roomGetLeaderboard(room, currentQuestionOnly) ==
  LET entry(p) ==
        [playerId |-> p.playerId, from |-> p.sock,
         score |-> IF currentQuestionOnly
                   THEN Cardinality({i \in DOMAIN p.answers :
                                       /\ p.answers[i].questionIndex = room.currentQuestion
                                       /\ p.answers[i].isCorrect})
                   ELSE p.score]
  IN sortByScore(<<>>, [i \in DOMAIN room.participants |-> entry(room.participants[i])])

\* DoQuizService.getLeaderboard: the participants of the session, with the
\* score stored under their player id, sorted.
getLeaderboard(s) ==
  sortByScore(<<>>, [i \in DOMAIN s.participants |->
                       [playerId |-> s.participants[i].playerId,
                        from |-> s.participants[i].sock,
                        score |-> s.scores[s.participants[i].playerId]]])

\* The state after construction, with codes the set of codes the draws of
\* generateRoomCode can produce.
ServiceInit(codes) ==
  /\ rooms = [code \in codes |-> NoRoom]
  /\ timers = {}
  /\ thrown = ""
  /\ delayed = {}
  /\ quizzes = TheQuiz
  /\ pendingCreate = {}
  /\ activeQuizzes = [code \in codes |-> NoSession]
  /\ questionTimers = [code \in codes |-> NoTimer]
  /\ user = [c \in Conns |-> c]
  /\ connected = [c \in Conns |-> TRUE]
  /\ sockRoom = [c \in Conns |-> NoCode]
  /\ joined = [c \in Conns |-> {}]
  /\ out = <<>>
  /\ finalResults = <<>>
  /\ replaced = FALSE

\* createRoom(quizId, hostId) up to the await of the quiz fetch.
RoomCreateBegin(hostId) ==
  /\ hostId \notin pendingCreate
  /\ pendingCreate' = pendingCreate \cup {hostId}
  /\ thrown' = ""
  /\ UNCHANGED <<rooms, timers, socketVars>>

\* createRoom after the fetch: the room is registered under a fresh code.
RoomCreateFinish(hostId, found) ==
  /\ hostId \in pendingCreate
  /\ found => quizzes # NoQuiz
  /\ pendingCreate' = pendingCreate \ {hostId}
  /\ IF ~found
     THEN /\ thrown' = "Quiz not found"
          /\ UNCHANGED rooms
     ELSE \E code \in generateRoomCode :
          /\ rooms' = [rooms EXCEPT ![code] = createRoom(hostId, quizzes)]
          /\ thrown' = ""
  /\ UNCHANGED <<timers, socketVars>>

\* joinRoom(roomCode, socketId, name)
RoomJoin(c, code) ==
  /\ thrown' = joinRoomErr(rooms[code], c)
  /\ IF thrown' # ""
     THEN UNCHANGED rooms
     ELSE \E pid \in generatePlayerId(rooms[code], c) :
            rooms' = [rooms EXCEPT ![code] = joinRoom(@, c, pid)]
  /\ UNCHANGED <<timers, pendingCreate, socketVars>>

\* leaveRoom(roomCode, socketId); deleteRoom clears the timer of a room that
\* is left empty.
RoomLeave(c, code) ==
  /\ thrown' = ""
  /\ rooms' = [rooms EXCEPT ![code] = leaveRoom(@, c)]
  /\ timers' = IF rooms[code].live /\ ~rooms'[code].live THEN timers \ {code} ELSE timers
  /\ UNCHANGED <<pendingCreate, socketVars>>

\* startQuiz(roomCode, hostId); startQuestionTimer arms the timer.
RoomStartQuiz(hostId, code) ==
  /\ thrown' = roomStartQuizErr(rooms[code], hostId)
  /\ IF thrown' # ""
     THEN UNCHANGED <<rooms, timers>>
     ELSE /\ rooms' = [rooms EXCEPT ![code] = roomStartQuiz(@)]
          /\ timers' = timers \cup {code}
  /\ UNCHANGED <<pendingCreate, socketVars>>

\* submitAnswer(roomCode, socketId, answer)
RoomSubmitAnswer(c, code, answer) ==
  /\ thrown' = roomSubmitAnswerErr(rooms[code], c)
  /\ IF thrown' # ""
     THEN UNCHANGED rooms
     ELSE rooms' = [rooms EXCEPT ![code] = roomSubmitAnswer(@, c, answer)]
  /\ UNCHANGED <<timers, pendingCreate, socketVars>>

\* nextQuestion with clearQuestionTimer moved in front of its checks.
RoomNextQuestionClearsFirst(hostId, code) ==
  /\ thrown' = roomNextQuestionErr(rooms[code], hostId)
  /\ IF thrown' # ""
     THEN /\ timers' = timers \ {code}
          /\ UNCHANGED rooms
     ELSE /\ rooms' = [rooms EXCEPT ![code] = roomNextQuestion(@)]
          /\ timers' = IF rooms'[code].currentQuestion >= totalQuestions
                       THEN timers \ {code} ELSE timers \cup {code}
  /\ UNCHANGED <<pendingCreate, socketVars>>

\* nextQuestion(roomCode, hostId): the timer is cleared and, unless the quiz
\* is complete, armed again.
RoomNextQuestion(hostId, code) ==
  /\ thrown' = roomNextQuestionErr(rooms[code], hostId)
  /\ IF thrown' # ""
     THEN UNCHANGED <<rooms, timers>>
     ELSE /\ rooms' = [rooms EXCEPT ![code] = roomNextQuestion(@)]
          /\ timers' = IF rooms'[code].currentQuestion >= totalQuestions
                       THEN timers \ {code} ELSE timers \cup {code}
  /\ UNCHANGED <<pendingCreate, socketVars>>

\* The timer armed by startQuestionTimer fires: nextQuestion(roomCode, room.hostId).
RoomTimerFire(code) ==
  /\ code \in timers
  /\ thrown' = roomNextQuestionErr(rooms[code], rooms[code].hostId)
  /\ IF thrown' # ""
     THEN /\ timers' = timers \ {code}
          /\ UNCHANGED rooms
     ELSE /\ rooms' = [rooms EXCEPT ![code] = roomNextQuestion(@)]
          /\ timers' = IF rooms'[code].currentQuestion >= totalQuestions
                       THEN timers \ {code} ELSE timers \cup {code}
  /\ UNCHANGED <<pendingCreate, socketVars>>

\* cancelRoom(roomCode)
RoomCancel(code) ==
  /\ thrown' = ""
  /\ rooms' = [rooms EXCEPT ![code] = NoRoom]
  /\ timers' = IF rooms[code].live THEN timers \ {code} ELSE timers
  /\ UNCHANGED <<pendingCreate, socketVars>>

\* deleteRoom(roomCode)
RoomDelete(code) ==
  /\ thrown' = ""
  /\ rooms' = [rooms EXCEPT ![code] = NoRoom]
  /\ timers' = timers \ {code}
  /\ UNCHANGED <<pendingCreate, socketVars>>

\* Every method, on the room code the socket handlers also use.
RoomInit == ServiceInit(RoomCodes)

RoomNext ==
  \/ \E hostId \in Conns : RoomCreateBegin(hostId)
  \/ \E hostId \in Conns, found \in BOOLEAN : RoomCreateFinish(hostId, found)
  \/ \E c \in Conns, code \in RoomCodes : RoomJoin(c, code)
  \/ \E c \in Conns, code \in RoomCodes : RoomLeave(c, code)
  \/ \E hostId \in Conns, code \in RoomCodes : RoomStartQuiz(hostId, code)
  \/ \E c \in Conns, code \in RoomCodes, answer \in 0..(NumOptions - 1) :
       RoomSubmitAnswer(c, code, answer)
  \/ \E hostId \in Conns, code \in RoomCodes : RoomNextQuestion(hostId, code)
  \/ \E code \in RoomCodes : RoomTimerFire(code)
  \/ \E code \in RoomCodes : RoomCancel(code)
  \/ \E code \in RoomCodes : RoomDelete(code)

RoomSpec == RoomInit /\ [][RoomNext]_vars

\* The registry alone, over NumCodes codes: rooms are created, cancelled,
\* deleted, left and asked to start, and nobody joins them.
RegistryInit == ServiceInit(ServiceCodes)

RegistryNext ==
  \/ \E hostId \in Conns : RoomCreateBegin(hostId)
  \/ \E hostId \in Conns, found \in BOOLEAN : RoomCreateFinish(hostId, found)
  \/ \E c \in Conns, code \in ServiceCodes : RoomLeave(c, code)
  \/ \E hostId \in Conns, code \in ServiceCodes : RoomStartQuiz(hostId, code)
  \/ \E code \in ServiceCodes : RoomCancel(code)
  \/ \E code \in ServiceCodes : RoomDelete(code)

RegistrySpec == RegistryInit /\ [][RegistryNext]_vars

(***************************************************************************)
(* DoQuizService, its methods called directly                              *)
(***************************************************************************)
\* The participant maps handed to startQuiz: one or two participants, in
\* either order of joining.
Rosters ==
  {joinRoom(createRoom(c, TheQuiz), c, c).participants : c \in Conns}
    \cup {joinRoom(joinRoom(createRoom(p[1], TheQuiz), p[1], p[1]), p[2], p[2]).participants :
            p \in {q \in Conns \X Conns : q[1] # q[2]}}

\* startQuiz(roomCode, quizData, participants, io): the session is stored and
\* startQuestion arms the timer of the first question.
QuizStart(code, participants, io) ==
  /\ activeQuizzes' = [activeQuizzes EXCEPT ![code] = startQuizSession(TheQuiz, participants)]
  /\ questionTimers' = [questionTimers EXCEPT
                         ![code] = [armed |-> TRUE, io |-> io, question |-> 0]]
  /\ thrown' = ""
  /\ finalResults' = <<>>
  /\ out' = <<>>
  /\ UNCHANGED <<rooms, timers, delayed, quizzes, pendingCreate, user, connected, sockRoom, joined, replaced>>

\* submitAnswer(roomCode, socketId, answerIndex)
QuizSubmit(code, c, answer) ==
  /\ thrown' = submitAnswerErr(activeQuizzes[code], c)
  /\ IF thrown' # ""
     THEN UNCHANGED activeQuizzes
     ELSE activeQuizzes' = [activeQuizzes EXCEPT ![code] = submitAnswer(@, c, answer)]
  /\ finalResults' = <<>>
  /\ out' = <<>>
  /\ UNCHANGED <<rooms, timers, delayed, quizzes, pendingCreate, questionTimers, user, connected, sockRoom,
                 joined, replaced>>

\* nextQuestion(roomCode, io): null without a session.
QuizNext(code, io) ==
  /\ thrown' = ""
  /\ IF ~activeQuizzes[code].exists
     THEN /\ finalResults' = <<>>
          /\ out' = <<>>
          /\ UNCHANGED <<activeQuizzes, questionTimers>>
     ELSE LET r == nextQuestion(activeQuizzes[code], io)
          IN /\ activeQuizzes' = [activeQuizzes EXCEPT ![code] = r.session]
             /\ questionTimers' = [questionTimers EXCEPT ![code] = r.timer]
             /\ finalResults' = r.results
             /\ out' = ToRoom(r.emit, code)
  /\ UNCHANGED <<rooms, timers, delayed, quizzes, pendingCreate, user, connected, sockRoom, joined, replaced>>

\* endQuiz(roomCode): without a session it logs and returns null, which
\* finalResults holds as the empty sequence; nothing is thrown.  With a
\* session it clears the timer, deletes the session and returns the results.
QuizEnd(code) ==
  /\ thrown' = ""
  /\ out' = <<>>
  /\ IF ~activeQuizzes[code].exists
     THEN /\ finalResults' = <<>>
          /\ UNCHANGED <<activeQuizzes, questionTimers>>
     ELSE /\ finalResults' = endQuiz(activeQuizzes[code])
          /\ activeQuizzes' = [activeQuizzes EXCEPT ![code] = NoSession]
          /\ questionTimers' = [questionTimers EXCEPT ![code] = NoTimer]
  /\ UNCHANGED <<rooms, timers, delayed, quizzes, pendingCreate, user, connected, sockRoom, joined, replaced>>

QuizInit == ServiceInit(RoomCodes)

QuizNextStep ==
  \/ \E code \in RoomCodes, participants \in Rosters, io \in BOOLEAN :
       QuizStart(code, participants, io)
  \/ \E code \in RoomCodes, c \in Conns, answer \in 0..(NumOptions - 1) :
       QuizSubmit(code, c, answer)
  \/ \E code \in RoomCodes, io \in BOOLEAN : QuizNext(code, io)
  \/ \E code \in RoomCodes : QuizEnd(code)
  \/ \E code \in RoomCodes : TimerFire(code)

QuizSpec == QuizInit /\ [][QuizNextStep]_vars

(***************************************************************************)
(* RoomService, a room one place short of its capacity                     *)
(***************************************************************************)
\* Sockets other than Conns that joined the room earlier and stay in it.
Crowd == (NumConns + 1)..(NumConns + maxParticipants - 1)

\* The room after the sockets NumConns + 1 .. last joined it in turn, each
\* under a player id of its own.
RECURSIVE joinedUpTo(_, _)
joinedUpTo(room, last) ==
  IF last \notin Crowd THEN room
  ELSE joinRoom(joinedUpTo(room, last - 1), last, last)

\* A room created by user 1 and joined by the crowd: createRoom and joinRoom
\* have run, nothing else has.
CrowdedInit ==
  /\ rooms = [code \in RoomCodes |-> joinedUpTo(createRoom(1, TheQuiz), NumConns + maxParticipants - 1)]
  /\ timers = {}
  /\ thrown = ""
  /\ delayed = {}
  /\ quizzes = TheQuiz
  /\ pendingCreate = {}
  /\ activeQuizzes = [code \in RoomCodes |-> NoSession]
  /\ questionTimers = [code \in RoomCodes |-> NoTimer]
  /\ user = [c \in Conns |-> c]
  /\ connected = [c \in Conns |-> TRUE]
  /\ sockRoom = [c \in Conns |-> NoCode]
  /\ joined = [c \in Conns |-> {}]
  /\ out = <<>>
  /\ finalResults = <<>>
  /\ replaced = FALSE

\* The connections compete for the last place.
CrowdedNext ==
  \/ \E c \in Conns, code \in RoomCodes : RoomJoin(c, code)
  \/ \E c \in Conns, code \in RoomCodes : RoomLeave(c, code)

CrowdedSpec == CrowdedInit /\ [][CrowdedNext]_vars

(***************************************************************************)
(* RoomService.submitAnswer with its clock and the client's time           *)
(***************************************************************************)
\* clientTimeTaken when the caller passes none (the parameter's default).
NoTime == -1

\* The deviation below which the client's time is taken.
Tolerance == 5000

\* The times a caller reports and the times the server measures since the
\* question started, in ms.
ClientTimes == {NoTime, 0, 5000, 8000}
ServerTimes == {3000, 10000}

Abs(x) == IF x < 0 THEN -x ELSE x

\* timeSpent: the client's time when it is truthy (neither missing nor 0)
\* and deviates from the server's by less than Tolerance.
timeSpent(clientTimeTaken, serverTimeSpent) ==
  IF /\ clientTimeTaken # NoTime
     /\ clientTimeTaken # 0
     /\ Abs(clientTimeTaken - serverTimeSpent) < Tolerance
  THEN clientTimeTaken
  ELSE serverTimeSpent

\* roomSubmitAnswerTimed with a point given only to a correct answer whose
\* timeSpent is below Tolerance.
roomSubmitAnswerTimedBonus(room, c, answer, clientTimeTaken, serverTimeSpent) ==
  LET i == IndexOf(room.participants, c)
      isCorrect == (answer = correctAnswerIndex(room.currentQuestion))
      spent == timeSpent(clientTimeTaken, serverTimeSpent)
  IN [room EXCEPT
        !.participants[i].answers =
           Append(@, [questionIndex |-> room.currentQuestion, answerIndex |-> answer,
                      isCorrect |-> isCorrect,
                      timeSpent |-> spent,
                      serverTimeSpent |-> serverTimeSpent]),
        !.participants[i].score = IF isCorrect /\ spent < Tolerance THEN @ + 1 ELSE @]

\* submitAnswer past its checks, with the times its answer record holds;
\* roomSubmitAnswer is this operator with the two time fields left out.
roomSubmitAnswerTimed(room, c, answer, clientTimeTaken, serverTimeSpent) ==
  LET i == IndexOf(room.participants, c)
      isCorrect == (answer = correctAnswerIndex(room.currentQuestion))
  IN [room EXCEPT
        !.participants[i].answers =
           Append(@, [questionIndex |-> room.currentQuestion, answerIndex |-> answer,
                      isCorrect |-> isCorrect,
                      timeSpent |-> timeSpent(clientTimeTaken, serverTimeSpent),
                      serverTimeSpent |-> serverTimeSpent]),
        !.participants[i].score = IF isCorrect THEN @ + 1 ELSE @]

\* submitAnswer(roomCode, socketId, answer, clientTimeTaken), called when
\* the clock shows serverTimeSpent ms since the question started.
TimedSubmit(c, code, answer, clientTimeTaken, serverTimeSpent) ==
  /\ thrown' = roomSubmitAnswerErr(rooms[code], c)
  /\ IF thrown' # ""
     THEN UNCHANGED rooms
     ELSE rooms' = [rooms EXCEPT
                      ![code] = roomSubmitAnswerTimed(@, c, answer, clientTimeTaken,
                                                      serverTimeSpent)]
  /\ UNCHANGED <<timers, pendingCreate, socketVars>>

\* A room that user 1 has created and nobody has joined yet.
TimedInit ==
  /\ rooms = [code \in RoomCodes |-> createRoom(1, TheQuiz)]
  /\ timers = {}
  /\ thrown = ""
  /\ delayed = {}
  /\ quizzes = TheQuiz
  /\ pendingCreate = {}
  /\ activeQuizzes = [code \in RoomCodes |-> NoSession]
  /\ questionTimers = [code \in RoomCodes |-> NoTimer]
  /\ user = [c \in Conns |-> c]
  /\ connected = [c \in Conns |-> TRUE]
  /\ sockRoom = [c \in Conns |-> NoCode]
  /\ joined = [c \in Conns |-> {}]
  /\ out = <<>>
  /\ finalResults = <<>>
  /\ replaced = FALSE

\* Joins and submissions during the first question, under every pairing of
\* a client time with a server time.
TimedNext ==
  \/ \E c \in Conns, code \in RoomCodes : RoomJoin(c, code)
  \/ \E hostId \in Conns, code \in RoomCodes : RoomStartQuiz(hostId, code)
  \/ \E c \in Conns, code \in RoomCodes, answer \in 0..(NumOptions - 1),
        clientTimeTaken \in ClientTimes, serverTimeSpent \in ServerTimes :
       TimedSubmit(c, code, answer, clientTimeTaken, serverTimeSpent)

TimedSpec == TimedInit /\ [][TimedNext]_vars

\* Joins, submissions and advances through the whole quiz; each submission
\* comes with or without a client time that the server accepts.
PacedClientTimes == {NoTime, 5000}
PacedServerTimes == {3000}

PacedNext ==
  \/ \E c \in Conns, code \in RoomCodes : RoomJoin(c, code)
  \/ \E hostId \in Conns, code \in RoomCodes : RoomStartQuiz(hostId, code)
  \/ \E c \in Conns, code \in RoomCodes, answer \in 0..(NumOptions - 1),
        clientTimeTaken \in PacedClientTimes, serverTimeSpent \in PacedServerTimes :
       TimedSubmit(c, code, answer, clientTimeTaken, serverTimeSpent)
  \/ \E hostId \in Conns, code \in RoomCodes : RoomNextQuestion(hostId, code)
  \/ \E code \in RoomCodes : RoomTimerFire(code)

PacedSpec == TimedInit /\ [][PacedNext]_vars

(***************************************************************************)
(* The earlier SocketService, whose handlers drive the quiz through        *)
(* RoomService: join-room, start-quiz, submit-answer with its delayed      *)
(* auto-advance, next-quiz, disconnect, advanceToNextQuestion and the      *)
(* callbacks it leaves pending.                                            *)
(***************************************************************************)
legacyFrame == <<activeQuizzes, questionTimers, user, pendingCreate, finalResults, replaced,
                 quizzes>>

\* join-room
LegacyJoinRoom(c, code) ==
  /\ connected[c]
  /\ thrown' = joinRoomErr(rooms[code], c)
  /\ IF thrown' # ""
     THEN /\ out' = Error(c, thrown')
          /\ UNCHANGED <<rooms, sockRoom, joined>>
     ELSE \E pid \in generatePlayerId(rooms[code], c) :
          /\ rooms' = [rooms EXCEPT ![code] = joinRoom(@, c, pid)]
          /\ sockRoom' = [sockRoom EXCEPT ![c] = code]
          /\ joined' = [joined EXCEPT ![c] = @ \cup {code}]
          /\ out' = <<Ev("room-joined", {c}, NoIndex, FALSE, ""),
                      Ev("participant-joined", Members(code) \ {c}, NoIndex, FALSE, "")>>
  /\ UNCHANGED <<timers, delayed, connected, legacyFrame>>

\* start-quiz
LegacyStartQuiz(c, code) ==
  /\ connected[c]
  /\ IF user[c] = 0
     THEN /\ out' = Error(c, "Authentication required to start quiz")
          /\ UNCHANGED <<rooms, timers, thrown>>
     ELSE /\ thrown' = roomStartQuizErr(rooms[code], user[c])
          /\ IF thrown' # ""
             THEN /\ out' = Error(c, thrown')
                  /\ UNCHANGED <<rooms, timers>>
             ELSE /\ rooms' = [rooms EXCEPT ![code] = roomStartQuiz(@)]
                  /\ timers' = timers \cup {code}
                  /\ out' = <<Ev("quiz-started", Members(code), 0, FALSE, "")>>
  /\ UNCHANGED <<delayed, connected, sockRoom, joined, legacyFrame>>

\* Every participant has an answer to the current question.
allAnswered(room) ==
  \A i \in DOMAIN room.participants :
    HasAnswer(room.participants[i].answers, room.currentQuestion)

\* submit-answer: when the answer is the last one missing, the handler
\* leaves advanceToNextQuestion(roomCode, socket.user?.id) to run 2 s later.
LegacySubmitAnswer(c, code, answer) ==
  /\ connected[c]
  /\ thrown' = roomSubmitAnswerErr(rooms[code], c)
  /\ IF thrown' # ""
     THEN /\ out' = Error(c, thrown')
          /\ UNCHANGED <<rooms, delayed>>
     ELSE /\ rooms' = [rooms EXCEPT ![code] = roomSubmitAnswer(@, c, answer)]
          /\ out' = <<Ev("answer-submitted", {c}, NoIndex, FALSE, ""),
                      Ev("leaderboard-updated", Members(code), NoIndex, FALSE, "")>>
          /\ delayed' = IF allAnswered(rooms'[code])
                        THEN delayed \cup {[kind |-> "advance", code |-> code,
                                            hostId |-> user[c],
                                            question |-> rooms[code].currentQuestion]}
                        ELSE delayed
  /\ UNCHANGED <<timers, connected, sockRoom, joined, legacyFrame>>

\* advanceToNextQuestion(roomCode, hostId) up to its await of
\* saveQuizResults; pending are the callbacks that stay pending.  What
\* nextQuestion throws is sent to the whole room.
advanceToNextQuestion(code, hostId, pending) ==
  /\ thrown' = roomNextQuestionErr(rooms[code], hostId)
  /\ IF thrown' # ""
     THEN /\ out' = <<Ev("error", Members(code), NoIndex, FALSE, thrown')>>
          /\ delayed' = pending
          /\ UNCHANGED <<rooms, timers>>
     ELSE /\ rooms' = [rooms EXCEPT ![code] = roomNextQuestion(@)]
          /\ IF rooms'[code].currentQuestion >= totalQuestions
             THEN /\ timers' = timers \ {code}
                  /\ out' = <<>>
                  /\ delayed' = pending \cup {[kind |-> "saved", code |-> code,
                                               hostId |-> 0, question |-> 0]}
             ELSE /\ timers' = timers \cup {code}
                  /\ out' = <<Ev("next-question", Members(code),
                                 rooms'[code].currentQuestion, FALSE, "")>>
                  /\ delayed' = pending

\* next-quiz
LegacyNextQuiz(c, code) ==
  /\ connected[c]
  /\ IF user[c] = 0
     THEN /\ out' = Error(c, "Authentication required")
          /\ UNCHANGED <<rooms, timers, thrown, delayed>>
     ELSE advanceToNextQuestion(code, user[c], delayed)
  /\ UNCHANGED <<connected, sockRoom, joined, legacyFrame>>

\* The delayed auto-advance of submit-answer runs.
DelayedAdvance(d) ==
  /\ d \in delayed
  /\ d.kind = "advance"
  /\ advanceToNextQuestion(d.code, d.hostId, delayed \ {d})
  /\ UNCHANGED <<connected, sockRoom, joined, legacyFrame>>

\* advanceToNextQuestion after its await: quiz-completed is broadcast and
\* deleteRoom is left to run 30 s later.
AdvanceSaved(d) ==
  /\ d \in delayed
  /\ d.kind = "saved"
  /\ out' = <<Ev("quiz-completed", Members(d.code), NoIndex, TRUE, "")>>
  /\ delayed' = (delayed \ {d}) \cup {[d EXCEPT !.kind = "delete"]}
  /\ UNCHANGED <<rooms, timers, thrown, connected, sockRoom, joined, legacyFrame>>

\* The deleteRoom left by advanceToNextQuestion runs.
DelayedDelete(d) ==
  /\ d \in delayed
  /\ d.kind = "delete"
  /\ rooms' = [rooms EXCEPT ![d.code] = NoRoom]
  /\ timers' = timers \ {d.code}
  /\ delayed' = delayed \ {d}
  /\ out' = <<>>
  /\ UNCHANGED <<thrown, connected, sockRoom, joined, legacyFrame>>

\* The question timer of RoomService fires; nothing is emitted.
LegacyTimerFire(code) ==
  /\ code \in timers
  /\ thrown' = roomNextQuestionErr(rooms[code], rooms[code].hostId)
  /\ IF thrown' # ""
     THEN /\ timers' = timers \ {code}
          /\ UNCHANGED rooms
     ELSE /\ rooms' = [rooms EXCEPT ![code] = roomNextQuestion(@)]
          /\ timers' = IF rooms'[code].currentQuestion >= totalQuestions
                       THEN timers \ {code} ELSE timers \cup {code}
  /\ out' = <<>>
  /\ UNCHANGED <<delayed, connected, sockRoom, joined, legacyFrame>>

\* disconnect
LegacyDisconnect(c) ==
  /\ connected[c]
  /\ connected' = [connected EXCEPT ![c] = FALSE]
  /\ joined' = [joined EXCEPT ![c] = {}]
  /\ LET code == sockRoom[c]
     IN IF code # NoCode /\ rooms[code].live
        THEN /\ out' = IF Has(rooms[code].participants, c)
                       THEN <<Ev("participant-left", Members(code) \ {c}, NoIndex, FALSE, "")>>
                       ELSE <<>>
             /\ rooms' = [rooms EXCEPT ![code] = leaveRoom(@, c)]
             /\ timers' = IF ~rooms'[code].live THEN timers \ {code} ELSE timers
        ELSE /\ out' = <<>>
             /\ UNCHANGED <<rooms, timers>>
  /\ UNCHANGED <<thrown, delayed, sockRoom, legacyFrame>>

\* A room that user 1 has created; the sockets then join, play and leave.
LegacyInit == TimedInit

\* The callbacks that can be pending.
Callbacks == [kind : {"advance", "saved", "delete"}, code : RoomCodes,
              hostId : 0..NumConns, question : 0..NumQuestions]

LegacyNext ==
  \/ \E c \in Conns, code \in RoomCodes : LegacyJoinRoom(c, code)
  \/ \E c \in Conns, code \in RoomCodes : LegacyStartQuiz(c, code)
  \/ \E c \in Conns, code \in RoomCodes, answer \in 0..(NumOptions - 1) :
       LegacySubmitAnswer(c, code, answer)
  \/ \E c \in Conns, code \in RoomCodes : LegacyNextQuiz(c, code)
  \/ \E d \in Callbacks : DelayedAdvance(d)
  \/ \E d \in Callbacks : AdvanceSaved(d)
  \/ \E d \in Callbacks : DelayedDelete(d)
  \/ \E code \in RoomCodes : LegacyTimerFire(code)
  \/ \E c \in Conns : LegacyDisconnect(c)

LegacySpec == LegacyInit /\ [][LegacyNext]_vars

(***************************************************************************)
(* The stored quiz is edited or removed while rooms exist: create-room,    *)
(* join-room, start-quiz and disconnect, with updates of the document in   *)
(* between.  No question is closed here, so a started quiz stays at its    *)
(* first question.                                                         *)
(***************************************************************************)
\* What an update can leave stored: the document as it was or with another
\* text, other options or another correct index for its first question, or
\* without its last question.
Edits ==
  {TheQuiz,
   [TheQuiz EXCEPT ![1].questionText = 1],
   [TheQuiz EXCEPT ![1].options = 1],
   [TheQuiz EXCEPT ![1].correctAnswerIndex = (@ + 1) % NumOptions],
   SubSeq(TheQuiz, 1, NumQuestions - 1)}

\* PUT /api/quizzes/:id: the stored questions are replaced; the request
\* fails when the quiz is not found.
UpdateQuiz(doc) ==
  /\ quizzes # NoQuiz
  /\ quizzes' = doc
  /\ UNCHANGED <<rooms, activeQuizzes, questionTimers, user, connected, sockRoom, joined,
                 pendingCreate, out, finalResults, replaced, timers, thrown, delayed>>

\* The document is removed from the collection.
DeleteQuiz ==
  /\ quizzes # NoQuiz
  /\ quizzes' = NoQuiz
  /\ UNCHANGED <<rooms, activeQuizzes, questionTimers, user, connected, sockRoom, joined,
                 pendingCreate, out, finalResults, replaced, timers, thrown, delayed>>

SnapshotNext ==
  \/ \E c \in Conns : CreateRoomBegin(c)
  \/ \E c \in Conns, found \in BOOLEAN : CreateRoomFinish(c, found)
  \/ \E c \in Conns, code \in RoomCodes : JoinRoom(c, code)
  \/ \E c \in Conns, code \in RoomCodes : StartQuiz(c, code)
  \/ \E c \in Conns : Disconnect(c)
  \/ \E doc \in Edits : UpdateQuiz(doc)
  \/ DeleteQuiz

SnapshotSpec == Init /\ [][SnapshotNext]_vars

(***************************************************************************)
(* The earlier DoQuizService: startQuiz as now, submitAnswer that rejects  *)
(* a second answer, nextQuestion without the no-answer records.  Its       *)
(* methods are called directly, like those of QuizSpec.                    *)
(***************************************************************************)
\* The most points the analysis lets a participant collect.
MaxScore == 3

\* Map.get(key) || [] on results.answers.  The entries of the map are stored
\* under player ids; a socket id is no key of it.
earlierAnswersGet(s, key) ==
  IF key[1] = "playerId" THEN s.answers[key[2]] ELSE <<>>

\* The checks of the earlier submitAnswer, in order; the list searched for
\* an existing answer is the one found under the socket id.
earlierSubmitAnswerErr(s, c) ==
  IF ~s.exists THEN "Quiz session not found"
  ELSE IF ~s.isActive THEN "Quiz is not active"
  ELSE IF ~Has(s.participants, c) THEN "Participant not found"
  ELSE IF s.currentQuestionIndex >= totalQuestions THEN "No active question"
  ELSE IF HasAnswer(earlierAnswersGet(s, <<"socketId", c>>), s.currentQuestionIndex)
       THEN "Already answered this question"
  ELSE ""

\* The earlier submitAnswer past its checks: the score is stored under the
\* player id, and so is the list found under the socket id with the new
\* record pushed.
earlierSubmitAnswer(s, c, answerIndex) ==
  LET pid == PlayerIdOf(s.participants, c)
      idx == s.currentQuestionIndex
      participantAnswers == earlierAnswersGet(s, <<"socketId", c>>)
      isCorrect == (answerIndex = correctAnswerIndex(idx))
      answerData == [questionIndex |-> idx, answerIndex |-> answerIndex, isCorrect |-> isCorrect]
  IN [s EXCEPT !.scores[pid] = IF isCorrect THEN @ + 1 ELSE @,
               !.answers[pid] = Append(participantAnswers, answerData),
               !.submitted = @ \cup {<<pid, idx>>}]

\* The earlier nextQuestion on an existing session.
earlierNextQuestion(s, io) ==
  LET s2 == [s EXCEPT !.currentQuestionIndex = @ + 1]
  IN IF s2.currentQuestionIndex >= totalQuestions
     THEN [session |-> NoSession, timer |-> NoTimer, results |-> endQuiz(s2),
           emit |-> IF io THEN <<[ev |-> "quiz-completed", q |-> NoIndex, results |-> TRUE]>>
                    ELSE <<>>]
     ELSE [session |-> s2,
           timer |-> [armed |-> TRUE, io |-> io, question |-> s2.currentQuestionIndex],
           results |-> <<>>,
           emit |-> IF io THEN <<[ev |-> "next-question", q |-> s2.currentQuestionIndex,
                                  results |-> FALSE]>>
                    ELSE <<>>]

\* submitAnswer(roomCode, participantId, answerIndex)
EarlierSubmit(code, c, answer) ==
  /\ \A p \in PlayerIds : activeQuizzes[code].scores[p] < MaxScore
  /\ thrown' = earlierSubmitAnswerErr(activeQuizzes[code], c)
  /\ IF thrown' # ""
     THEN UNCHANGED activeQuizzes
     ELSE activeQuizzes' = [activeQuizzes EXCEPT ![code] = earlierSubmitAnswer(@, c, answer)]
  /\ finalResults' = <<>>
  /\ out' = <<>>
  /\ UNCHANGED <<rooms, timers, delayed, quizzes, pendingCreate, questionTimers, user, connected,
                 sockRoom, joined, replaced>>

\* nextQuestion(roomCode, io), called directly (io chosen by the caller) or
\* by the question timer (io as startQuestion was given it).
EarlierNext(code, io) ==
  /\ thrown' = ""
  /\ IF ~activeQuizzes[code].exists
     THEN /\ finalResults' = <<>>
          /\ out' = <<>>
          /\ UNCHANGED <<activeQuizzes, questionTimers>>
     ELSE LET r == earlierNextQuestion(activeQuizzes[code], io)
          IN /\ activeQuizzes' = [activeQuizzes EXCEPT ![code] = r.session]
             /\ questionTimers' = [questionTimers EXCEPT ![code] = r.timer]
             /\ finalResults' = r.results
             /\ out' = ToRoom(r.emit, code)
  /\ UNCHANGED <<rooms, timers, delayed, quizzes, pendingCreate, user, connected, sockRoom, joined,
                 replaced>>

EarlierQuizStep ==
  \/ \E code \in RoomCodes, participants \in Rosters, io \in BOOLEAN :
       QuizStart(code, participants, io)
  \/ \E code \in RoomCodes, c \in Conns, answer \in 0..(NumOptions - 1) :
       EarlierSubmit(code, c, answer)
  \/ \E code \in RoomCodes, io \in BOOLEAN : EarlierNext(code, io)

EarlierQuizSpec == QuizInit /\ [][EarlierQuizStep]_vars

(***************************************************************************)
(* The socket handlers over NumRooms room codes, so that one connection    *)
(* can create or join a second room while it is a participant of a first:  *)
(* create-room and join-room overwrite socket.roomCode, and disconnect     *)
(* looks only at the room that socket.roomCode names.                      *)
(***************************************************************************)
NumRooms == 2
HouseCodes == {buildCode(<<>>, d) : d \in Draws(NumRooms)}

HouseInit ==
  /\ rooms = [code \in HouseCodes |-> NoRoom]
  /\ activeQuizzes = [code \in HouseCodes |-> NoSession]
  /\ questionTimers = [code \in HouseCodes |-> NoTimer]
  /\ user = [c \in Conns |-> c]
  /\ connected = [c \in Conns |-> TRUE]
  /\ sockRoom = [c \in Conns |-> NoCode]
  /\ joined = [c \in Conns |-> {}]
  /\ pendingCreate = {}
  /\ out = <<>>
  /\ finalResults = <<>>
  /\ replaced = FALSE
  /\ timers = {}
  /\ thrown = ""
  /\ delayed = {}
  /\ quizzes = TheQuiz

HouseNext ==
  \/ \E c \in Conns : CreateRoomBegin(c)
  \/ \E c \in Conns, found \in BOOLEAN : CreateRoomFinish(c, found)
  \/ \E c \in Conns, code \in HouseCodes : JoinRoom(c, code)
  \/ \E c \in Conns, code \in HouseCodes : StartQuiz(c, code)
  \/ \E c \in Conns : Disconnect(c)

HouseSpec == HouseInit /\ [][HouseNext]_vars

(***************************************************************************)
(* The earlier SocketService with room codes coming free and being drawn   *)
(* again: create-room, join-room, start-quiz, next-quiz, disconnect and    *)
(* the deleteRoom that advanceToNextQuestion leaves behind at completion.  *)
(***************************************************************************)
\* create-room up to the await of roomService.createRoom.
LegacyCreateRoomBegin(c) ==
  /\ connected[c]
  /\ c \notin pendingCreate
  /\ IF user[c] = 0
     THEN /\ out' = Error(c, "Authentication required to create rooms")
          /\ UNCHANGED pendingCreate
     ELSE /\ out' = <<>>
          /\ pendingCreate' = pendingCreate \cup {c}
  /\ UNCHANGED <<rooms, activeQuizzes, questionTimers, user, connected, sockRoom, joined,
                 finalResults, replaced, timers, thrown, quizzes, delayed>>

\* create-room after the await: the room is registered under a code that no
\* live room has, and the creator is told; the creator is not made a
\* participant.
LegacyCreateRoomFinish(c, found) ==
  /\ c \in pendingCreate
  /\ found => quizzes # NoQuiz
  /\ pendingCreate' = pendingCreate \ {c}
  /\ IF ~found
     THEN /\ thrown' = "Quiz not found"
          /\ out' = IF connected[c] THEN Error(c, thrown') ELSE <<>>
          /\ UNCHANGED rooms
     ELSE \E code \in generateRoomCode :
          /\ rooms' = [rooms EXCEPT ![code] = createRoom(user[c], quizzes)]
          /\ thrown' = ""
          /\ out' = IF connected[c]
                    THEN <<Ev("room-created", {c}, NoIndex, FALSE, "")>> ELSE <<>>
  /\ UNCHANGED <<activeQuizzes, questionTimers, user, connected, sockRoom, joined,
                 finalResults, replaced, timers, quizzes, delayed>>

RecycleNext ==
  \/ \E c \in Conns : LegacyCreateRoomBegin(c)
  \/ \E c \in Conns, found \in BOOLEAN : LegacyCreateRoomFinish(c, found)
  \/ \E c \in Conns, code \in RoomCodes : LegacyJoinRoom(c, code)
  \/ \E c \in Conns, code \in RoomCodes : LegacyStartQuiz(c, code)
  \/ \E c \in Conns, code \in RoomCodes : LegacyNextQuiz(c, code)
  \/ \E d \in Callbacks : AdvanceSaved(d)
  \/ \E d \in Callbacks : DelayedDelete(d)
  \/ \E c \in Conns : LegacyDisconnect(c)

RecycleSpec == LegacyInit /\ [][RecycleNext]_vars

(***************************************************************************)
(* Properties                                                              *)
(***************************************************************************)
\* The error taxonomy of the specification, by the message the code sends.
ErrorKind(msg) ==
  CASE msg \in {"Authentication required to create rooms",
                "Authentication required to start quiz"} -> "AuthError"
    [] msg \in {"Room not found", "Quiz not found", "Participant not found",
                "Quiz session not found"} -> "NotFound"
    [] msg \in {"Only the host can start the quiz",
                "Only the host can advance questions"} -> "Forbidden"
    [] msg \in {"Quiz is not active", "Quiz has already ended",
                "Already joined this room", "No active question",
                "Quiz is already active", "Cannot start quiz with no participants",
                "Already answered this question"} -> "Conflict"
    [] msg = "Room is full" -> "CapacityExceeded"
    [] OTHER -> "none"

Options == 0..(NumOptions - 1)
Questions == 0..(totalQuestions - 1)

Correct(list) == {j \in DOMAIN list : list[j].isCorrect}

OnePerIndex(list) ==
  \A j, k \in DOMAIN list : list[j].questionIndex = list[k].questionIndex => j = k

Established == {code \in RoomCodes : activeQuizzes[code].exists}

SessionIds(code) ==
  {activeQuizzes[code].participants[i].playerId : i \in DOMAIN activeQuizzes[code].participants}

ScoreCountsCorrect ==
  /\ \A code \in Established : \A pid \in SessionIds(code) :
       /\ activeQuizzes[code].scores[pid] = Cardinality(Correct(activeQuizzes[code].answers[pid]))
       /\ activeQuizzes[code].scores[pid] <= totalQuestions
  /\ \A i \in DOMAIN finalResults :
       /\ finalResults[i].score = Cardinality(Correct(finalResults[i].answers))
       /\ finalResults[i].score <= totalQuestions

\* A participant has just resubmitted for the second question and holds a
\* correct record for each question.
ScoreCountsCorrectWitness ==
  /\ replaced
  /\ \E code \in Established : \E pid \in SessionIds(code) :
       /\ activeQuizzes[code].currentQuestionIndex = 1
       /\ activeQuizzes[code].scores[pid] = 2

\* C5: in every state each participant has at most one answer record per
\* question index, in the running sessions and in the final results.
OneRecordPerQuestion ==
  /\ \A code \in Established : \A pid \in SessionIds(code) :
       OnePerIndex(activeQuizzes[code].answers[pid])
  /\ \A i \in DOMAIN finalResults : OnePerIndex(finalResults[i].answers)

\* A participant whose first question was closed with a submitted record has
\* just resubmitted for the second one.
OneRecordPerQuestionWitness ==
  /\ replaced
  /\ \E code \in Established : \E pid \in SessionIds(code) :
       /\ activeQuizzes[code].currentQuestionIndex = 1
       /\ Len(activeQuizzes[code].answers[pid]) = 2
       /\ activeQuizzes[code].answers[pid][1].answerIndex # -1

\* C6: for every participant of a running session, submitting option a and
\* then option b leaves the same answer records and scores as submitting b
\* alone, and the second submission changes the score by the correctness of
\* b minus the correctness of a.
ResubmissionKeepsLatest ==
  \A code \in Established : \A c \in Conns :
    submitAnswerErr(activeQuizzes[code], c) = "" =>
      \A a, b \in Options :
        LET s == activeQuizzes[code]
            pid == PlayerIdOf(s.participants, c)
            sa == submitAnswer(s, c, a)
            sab == submitAnswer(sa, c, b)
            sb == submitAnswer(s, c, b)
            right(x) == IF x = correctAnswerIndex(s.currentQuestionIndex) THEN 1 ELSE 0
        IN /\ sab.answers = sb.answers
           /\ sab.scores = sb.scores
           /\ sab.scores[pid] = sa.scores[pid] - right(a) + right(b)

\* A participant has just replaced a record and now holds a wrong answer for
\* the current question with a score of 0.
ResubmissionKeepsLatestWitness ==
  /\ replaced
  /\ \E code \in Established : \E pid \in SessionIds(code) :
       LET s == activeQuizzes[code]
       IN /\ HasAnswer(s.answers[pid], s.currentQuestionIndex)
          /\ ~s.answers[pid][FindIndex(s.answers[pid], s.currentQuestionIndex)].isCorrect
          /\ s.scores[pid] = 0

Named(ev) == {i \in DOMAIN out : out[i].ev = ev}

\* The handler answers connection c with an error of the kind, and with
\* nothing else.
FailsWith(c, kind) ==
  /\ Len(out') = 1
  /\ out'[1].ev = "error"
  /\ out'[1].to = {c}
  /\ ErrorKind(out'[1].msg) = kind

\* C3: a submit-answer that a participant of the session sent while question
\* seen was showing and that is handled once the session has moved past that
\* question, or that is handled once the session has ended, fails with
\* Conflict and leaves every answer record and score as it was.
LateSubmissionRejected ==
  [][\A c \in Conns, code \in RoomCodes, answer \in Options, seen \in Questions :
       (/\ SubmitAnswer(c, code, answer, seen)
        /\ \/ ~activeQuizzes[code].exists
           \/ /\ Has(activeQuizzes[code].participants, c)
              /\ seen < activeQuizzes[code].currentQuestionIndex)
         => /\ FailsWith(c, "Conflict")
            /\ UNCHANGED activeQuizzes]_vars

\* C4: when the host disconnects while the quiz is active, room-cancelled goes
\* to every remaining participant and the room is deleted; and a submit-answer
\* for the code of a room deleted under its running quiz fails with NotFound,
\* records and scores nothing and sends neither answer-submitted nor
\* leaderboard-updated.
HostDisconnectEndsQuiz ==
  [][\A c \in Conns, code \in RoomCodes :
       /\ (Disconnect(c) /\ sockRoom[c] = code /\ isHost(code, c) /\ isQuizActive(code))
            => /\ ~rooms'[code].live
               /\ Len(out') = 1
               /\ out'[1].ev = "room-cancelled"
               /\ \A i \in DOMAIN rooms[code].participants :
                    LET p == rooms[code].participants[i].sock
                    IN (p # c /\ connected[p]) => p \in out'[1].to
       /\ \A answer \in Options, seen \in Questions :
            (/\ SubmitAnswer(c, code, answer, seen)
             /\ ~rooms[code].live
             /\ activeQuizzes[code].exists)
              => /\ FailsWith(c, "NotFound")
                 /\ UNCHANGED activeQuizzes]_vars

\* C7: whenever the question timer of an active quiz fires, the question is
\* closed and the room is sent exactly next-question with the previous index
\* plus one, or, after the last question, quiz-completed.
TimerExpiryBroadcasts ==
  [][\A code \in RoomCodes :
       (TimerFire(code) /\ isQuizActive(code))
         => LET idx == activeQuizzes[code].currentQuestionIndex
            IN /\ Len(out') = 1
               /\ out'[1].to = Members(code)
               /\ IF idx + 1 < totalQuestions
                  THEN /\ out'[1].ev = "next-question"
                       /\ out'[1].q = idx + 1
                       /\ activeQuizzes'[code].currentQuestionIndex = idx + 1
                  ELSE /\ out'[1].ev = "quiz-completed"
                       /\ ~activeQuizzes'[code].exists]_vars

\* C8: when the last question closes, by the timer or by next-quiz, exactly
\* one quiz-completed goes to the room and its payload holds the final
\* results, an entry for every participant of the session.
LastQuestionCompletes ==
  [][\A code \in RoomCodes :
       (/\ TimerFire(code) \/ \E c \in Conns : NextQuiz(c, code)
        /\ isQuizActive(code)
        /\ activeQuizzes[code].currentQuestionIndex = totalQuestions - 1)
         => /\ Len(finalResults') = Len(activeQuizzes[code].participants)
            /\ \E i \in DOMAIN out' :
                 /\ out'[i].ev = "quiz-completed"
                 /\ out'[i].results
                 /\ out'[i].to = Members(code)
                 /\ \A j \in DOMAIN out' : out'[j].ev = "quiz-completed" => j = i]_vars

\* C9: start-quiz by the host of a room whose quiz is already active fails
\* with Conflict and leaves the session and the armed timer as they were.
StartWhileActiveRejected ==
  [][\A c \in Conns, code \in RoomCodes :
       (StartQuiz(c, code) /\ isQuizActive(code) /\ user[c] # 0 /\ isHost(code, c))
         => /\ FailsWith(c, "Conflict")
            /\ UNCHANGED <<activeQuizzes, questionTimers>>]_vars

\* C10: start-quiz for an existing room by a connection that is not its host
\* is answered with an error to that connection only, AuthError when the
\* connection is unauthenticated and Forbidden otherwise, and leaves the
\* room, the session and the timer as they were: nothing is broadcast.
NonHostStartRejected ==
  [][\A c \in Conns, code \in RoomCodes :
       (StartQuiz(c, code) /\ rooms[code].live /\ ~isHost(code, c))
         => /\ FailsWith(c, IF user[c] = 0 THEN "AuthError" ELSE "Forbidden")
            /\ UNCHANGED <<rooms, activeQuizzes, questionTimers>>]_vars

\* C10 as stated: every start-quiz by a connection that is not the host of
\* the room fails with Forbidden.
NonHostStartForbidden ==
  [][\A c \in Conns, code \in RoomCodes :
       (StartQuiz(c, code) /\ rooms[code].live /\ ~isHost(code, c))
         => /\ FailsWith(c, "Forbidden")
            /\ UNCHANGED <<rooms, activeQuizzes, questionTimers>>]_vars

\* An authenticated connection that joined a room in the lobby has just been
\* refused the start of its quiz.
NonHostStartRejectedWitness ==
  \E c \in Conns, code \in RoomCodes :
    /\ out = Error(c, "Only the host can start the quiz")
    /\ rooms[code].live
    /\ Has(rooms[code].participants, c)
    /\ ~isHost(code, c)
    /\ ~activeQuizzes[code].exists
    /\ ~questionTimers[code].armed

\* The first half of C4 alone: the host's disconnect during a quiz deletes
\* the room and sends room-cancelled to every remaining participant.
HostDisconnectCancels ==
  [][\A c \in Conns, code \in RoomCodes :
       (Disconnect(c) /\ sockRoom[c] = code /\ isHost(code, c) /\ isQuizActive(code))
         => /\ ~rooms'[code].live
            /\ Len(out') = 1
            /\ out'[1].ev = "room-cancelled"
            /\ \A i \in DOMAIN rooms[code].participants :
                 LET p == rooms[code].participants[i].sock
                 IN (p # c /\ connected[p]) => p \in out'[1].to]_vars

NextQuizHostOnly ==
  [][\A c \in Conns, code \in RoomCodes :
       (NextQuiz(c, code) /\ ~isHost(code, c))
         => /\ Len(out') = 1
            /\ out'[1].ev = "error"
            /\ out'[1].to = {c}
            /\ UNCHANGED <<activeQuizzes, questionTimers>>]_vars

LiveCodes == {code \in DOMAIN rooms : rooms[code].live}

\* The letters A-Z and the digits 0-9.
Alphabet ==
  {"A", "B", "C", "D", "E", "F", "G", "H", "I", "J", "K", "L", "M",
   "N", "O", "P", "Q", "R", "S", "T", "U", "V", "W", "X", "Y", "Z"}
    \cup {"0", "1", "2", "3", "4", "5", "6", "7", "8", "9"}

\* C13: the code of every live room is 6 characters of the alphabet A-Z0-9,
\* and a createRoom that registers a room does so under a code that no live
\* room had at that moment, leaving every other room as it was, whichever
\* other createRoom calls are in flight.
FreshRoomCodes ==
  /\ [](\A code \in LiveCodes :
          /\ Len(code) = 6
          /\ \A i \in DOMAIN code : code[i] \in Alphabet)
  /\ [][\A hostId \in Conns :
          RoomCreateFinish(hostId, TRUE)
            => \E code \in DOMAIN rooms :
                 /\ ~rooms[code].live
                 /\ rooms'[code].live
                 /\ \A other \in DOMAIN rooms \ {code} : rooms'[other] = rooms[other]]_vars

\* Two rooms of different hosts are live under different codes and a second
\* createRoom of one of the hosts awaits its quiz.
FreshRoomCodesWitness ==
  /\ pendingCreate # {}
  /\ \E c1, c2 \in LiveCodes :
       /\ c1 # c2
       /\ rooms[c1].hostId # rooms[c2].hostId
       /\ rooms[c1].hostId \in pendingCreate

\* lb lists each of the participants once, by non-increasing score, and
\* participants of equal score in their join order.
Ranked(lb, participants) ==
  /\ Len(lb) = Len(participants)
  /\ \A i \in DOMAIN participants :
       Cardinality({j \in DOMAIN lb : lb[j].from = participants[i].sock}) = 1
  /\ \A i, j \in DOMAIN lb :
       i < j => /\ lb[i].score >= lb[j].score
                /\ lb[i].score = lb[j].score
                     => IndexOf(participants, lb[i].from) < IndexOf(participants, lb[j].from)

SessionLeaderboardRanked ==
  \A code \in Established :
    Ranked(getLeaderboard(activeQuizzes[code]), activeQuizzes[code].participants)

\* C15: with the quiz left to its timers, a started quiz reaches every
\* question index 0..totalQuestions-1 and then completes with its final
\* results; each expiry moves the index by exactly one; and a running quiz
\* always has its timer armed.
TimersDriveQuiz ==
  /\ \A code \in RoomCodes : \A k \in Questions :
       (isQuizActive(code) /\ activeQuizzes[code].currentQuestionIndex = 0)
         ~> (isQuizActive(code) /\ activeQuizzes[code].currentQuestionIndex = k)
  /\ \A code \in RoomCodes :
       isQuizActive(code) ~> (~activeQuizzes[code].exists /\ finalResults # <<>>)
  /\ [][\A code \in RoomCodes :
          (TimerFire(code) /\ isQuizActive(code))
            => IF activeQuizzes[code].currentQuestionIndex + 1 < totalQuestions
               THEN /\ isQuizActive(code)'
                    /\ activeQuizzes'[code].currentQuestionIndex
                         = activeQuizzes[code].currentQuestionIndex + 1
               ELSE ~activeQuizzes'[code].exists]_vars
  /\ [](\A code \in RoomCodes : isQuizActive(code) => questionTimers[code].armed)

\* A quiz of two participants has just completed without one submission.
TimersDriveQuizWitness ==
  /\ Len(finalResults) = 2
  /\ \A i \in DOMAIN finalResults :
       /\ finalResults[i].submitted = {}
       /\ Len(finalResults[i].answers) = totalQuestions
  /\ \A code \in RoomCodes : ~activeQuizzes[code].exists /\ ~questionTimers[code].armed

\* C16: a live room whose quiz has just completed is deleted from the
\* registry in the end, without any of its participants leaving.
CompletedRoomDeleted ==
  \A code \in RoomCodes :
    (finalResults # <<>> /\ rooms[code].live) ~> ~rooms[code].live

\* C17: completing a quiz is idempotent: endQuiz called again right after a
\* call that returned the final results changes no state and either returns
\* those results again or fails with Conflict.
SecondCompletionIdempotent ==
  [][\A code \in RoomCodes :
       (QuizEnd(code) /\ finalResults # <<>> /\ ~activeQuizzes[code].exists)
         => /\ UNCHANGED <<activeQuizzes, questionTimers, rooms, timers>>
            /\ \/ finalResults' = finalResults
               \/ ErrorKind(thrown') = "Conflict"]_vars

\* The host of a live room: the first participant of its map.
HostSock(code) == rooms[code].participants[1].sock

\* C18, its closing sentence alone: no live room has a host who has left.
HostGoneRoomGone ==
  \A code \in RoomCodes :
    (rooms[code].live /\ Len(rooms[code].participants) > 0) => connected[HostSock(code)]

\* C18, the step alone: the host's disconnect sends room-cancelled to every
\* remaining participant and removes the room and its question timer.
HostLeaveStep ==
  [][\A c \in Conns, code \in RoomCodes :
       (Disconnect(c) /\ sockRoom[c] = code /\ isHost(code, c))
         => /\ Len(out') = 1
            /\ out'[1].ev = "room-cancelled"
            /\ \A i \in DOMAIN rooms[code].participants :
                 LET p == rooms[code].participants[i].sock
                 IN (p # c /\ connected[p]) => p \in out'[1].to
            /\ ~rooms'[code].live
            /\ code \notin timers'
            /\ ~questionTimers'[code].armed]_vars

\* C18: when the host leaves, room-cancelled is broadcast to all participants
\* and the room together with its question timer is removed in the same
\* step; no state is reachable in which the host has left and the room is
\* still live.
HostLeaveRemovesRoomAndTimer == []HostGoneRoomGone /\ HostLeaveStep

\* C19: when a participant who is not the host leaves, only that participant
\* is removed; the room is deleted if and only if it then has no
\* participants, and a deleted room has no question timer.
NonHostLeaveRemovesOnlyLeaver ==
  [][\A c \in Conns, code \in RoomCodes :
       (/\ Disconnect(c)
        /\ sockRoom[c] = code
        /\ rooms[code].live
        /\ Has(rooms[code].participants, c)
        /\ ~isHost(code, c))
         => /\ ~rooms'[code].live <=> Len(Delete(rooms[code].participants, c)) = 0
            /\ rooms'[code].live =>
                 rooms'[code] = [rooms[code] EXCEPT !.participants = Delete(@, c)]
            /\ ~rooms'[code].live => code \notin timers'
            /\ \A other \in RoomCodes \ {code} : rooms'[other] = rooms[other]]_vars

\* A participant who was not the host has just left during the quiz; the
\* room is live with the host alone.
NonHostLeaveRemovesOnlyLeaverWitness ==
  \E code \in LiveCodes :
    /\ Len(out) = 1
    /\ out[1].ev = "participant-left"
    /\ Len(rooms[code].participants) = 1
    /\ out[1].to = {HostSock(code)}
    /\ Len(activeQuizzes[code].participants) = 2

\* leaveRoom called for any participant, the last one included: the room is
\* deleted exactly when it is left empty, and its timer is then cleared.
LeaveDeletesEmptyRoom ==
  [][\A c \in Conns, code \in RoomCodes :
       (RoomLeave(c, code) /\ rooms[code].live /\ Has(rooms[code].participants, c))
         => /\ ~rooms'[code].live <=> Len(rooms[code].participants) = 1
            /\ rooms'[code].live =>
                 rooms'[code] = [rooms[code] EXCEPT !.participants = Delete(@, c)]
            /\ ~rooms'[code].live => code \notin timers']_vars

\* C20: no room ever holds more than 50 participants: joinRoom on a room that
\* holds 50 fails with CapacityExceeded, 'Room is full', and adds nobody.
RoomNeverOverfull ==
  /\ [](\A code \in RoomCodes : Len(rooms[code].participants) <= 50)
  /\ [][\A c \in Conns, code \in RoomCodes :
          (/\ RoomJoin(c, code)
           /\ rooms[code].live
           /\ ~rooms[code].isCompleted
           /\ Len(rooms[code].participants) >= 50)
            => /\ thrown' = "Room is full"
               /\ ErrorKind(thrown') = "CapacityExceeded"
               /\ UNCHANGED rooms]_vars

\* The room holds 50 participants and a connection that is not among them
\* has just been refused.
RoomNeverOverfullWitness ==
  \E code \in LiveCodes :
    /\ Len(rooms[code].participants) = 50
    /\ thrown = "Room is full"
    /\ \E c \in Conns : ~Has(rooms[code].participants, c)

\* C21: join-room by a newcomer for a room whose quiz has just completed, by
\* timer expiry or by the host's advance, fails with Conflict, 'Quiz has already ended',
\* and leaves the participant list unchanged.
JoinAfterCompletionRejected ==
  [][\A c \in Conns, code \in RoomCodes :
       (/\ JoinRoom(c, code)
        /\ finalResults # <<>>
        /\ rooms[code].live
        /\ ~Has(rooms[code].participants, c))
         => /\ FailsWith(c, "Conflict")
            /\ out'[1].msg = "Quiz has already ended"
            /\ UNCHANGED rooms]_vars

\* RoomService.joinRoom alone: a room that RoomService.nextQuestion marked
\* completed refuses every join.
CompletedRoomJoinRejected ==
  [][\A c \in Conns, code \in RoomCodes :
       (RoomJoin(c, code) /\ rooms[code].live /\ rooms[code].isCompleted)
         => thrown' = "Quiz has already ended" /\ UNCHANGED rooms]_vars

\* The sockets of a participant list.
Socks(parts) == {parts[i].sock : i \in DOMAIN parts}

\* Across a step the list keeps the order of those who stay, and whoever is
\* new comes after all of them.
KeepsJoinOrder(old, new) ==
  /\ \A a, b \in Socks(old) \cap Socks(new) :
       IndexOf(old, a) < IndexOf(old, b) <=> IndexOf(new, a) < IndexOf(new, b)
  /\ \A a \in Socks(new) \ Socks(old), b \in Socks(old) \cap Socks(new) :
       IndexOf(new, b) < IndexOf(new, a)

\* C22: isHost holds of a connection exactly when the room exists and the
\* connection is the earliest-joined participant still in it: the
\* participant list is kept in join order by every step, and isHost is its
\* first entry as the list stands at the call.
IsHostEarliestJoined ==
  /\ [][\A code \in RoomCodes :
          (rooms[code].live /\ rooms'[code].live)
            => KeepsJoinOrder(rooms[code].participants, rooms'[code].participants)]_vars
  /\ [](\A code \in RoomCodes, c \in Conns :
          isHost(code, c) <=>
            /\ rooms[code].live
            /\ c \in Socks(rooms[code].participants)
            /\ \A d \in Socks(rooms[code].participants) \ {c} :
                 IndexOf(rooms[code].participants, c) < IndexOf(rooms[code].participants, d))

\* The room's creator joined second: the first to join is the host, the
\* creator is not.
IsHostEarliestJoinedWitness ==
  \E code \in LiveCodes :
    LET parts == rooms[code].participants
    IN /\ Len(parts) = 2
       /\ parts[2].sock = rooms[code].hostId
       /\ isHost(code, parts[1].sock)
       /\ ~isHost(code, parts[2].sock)

\* A handler runs for an event that connection c sent.
HandlesEventOf(c) ==
  \/ CreateRoomBegin(c)
  \/ \E found \in BOOLEAN : CreateRoomFinish(c, found)
  \/ \E code \in RoomCodes :
       \/ JoinRoom(c, code)
       \/ StartQuiz(c, code)
       \/ NextQuiz(c, code)
       \/ GetLeaderboard(c, code)
       \/ CheckRoomStatus(c, code)
       \/ \E answer \in Options, seen \in Questions : SubmitAnswer(c, code, answer, seen)

LastAnswer(room, c) ==
  LET answers == room.participants[IndexOf(room.participants, c)].answers
  IN answers[Len(answers)]

\* C24: an accepted submitAnswer reports serverTimeSpent as the time the
\* server measured, and as timeSpent the caller's clientTimeTaken exactly
\* when that deviates from the server's time by no more than 5000 ms, the
\* server's time otherwise.
ClientTimeWithinTolerance ==
  [][\A c \in Conns, code \in RoomCodes, answer \in Options,
        clientTimeTaken \in ClientTimes, serverTimeSpent \in ServerTimes :
       (/\ TimedSubmit(c, code, answer, clientTimeTaken, serverTimeSpent)
        /\ roomSubmitAnswerErr(rooms[code], c) = "")
         => /\ LastAnswer(rooms'[code], c).serverTimeSpent = serverTimeSpent
            /\ LastAnswer(rooms'[code], c).timeSpent
                 = (IF /\ clientTimeTaken # NoTime
                       /\ Abs(clientTimeTaken - serverTimeSpent) <= 5000
                    THEN clientTimeTaken
                    ELSE serverTimeSpent)]_vars

\* The room with the time fields of its answer records left out: what is
\* left are the question index, the option and the isCorrect flag of every
\* record, the scores, the participants and the state of the quiz.
Untimed(room) ==
  [room EXCEPT
     !.participants =
        [i \in DOMAIN room.participants |->
           [room.participants[i] EXCEPT
              !.answers =
                 [j \in DOMAIN room.participants[i].answers |->
                    [questionIndex |-> room.participants[i].answers[j].questionIndex,
                     answerIndex |-> room.participants[i].answers[j].answerIndex,
                     isCorrect |-> room.participants[i].answers[j].isCorrect]]]]]

\* C25: scores do not depend on timing.  In every state, whatever the
\* server's clock and the caller's clientTimeTaken are, a join, start,
\* submission or advance does to the room without its time fields what the
\* same call does when no time is recorded at all, and raises the same
\* error; and the leaderboards are those of the room without its time
\* fields.  Two executions of the same calls that differ in their times only
\* therefore agree on every isCorrect flag, score and leaderboard.
ScoresIgnoreTiming ==
  \A code \in RoomCodes :
    LET room == rooms[code]
        before == Untimed(room)
    IN /\ \A currentQuestionOnly \in BOOLEAN :
            room.live => roomGetLeaderboard(room, currentQuestionOnly)
                           = roomGetLeaderboard(before, currentQuestionOnly)
       /\ \A c \in Conns :
            /\ roomSubmitAnswerErr(room, c) = roomSubmitAnswerErr(before, c)
            /\ roomSubmitAnswerErr(room, c) = ""
                 => \A answer \in Options, clientTimeTaken \in ClientTimes,
                       serverTimeSpent \in ServerTimes :
                      Untimed(roomSubmitAnswerTimed(room, c, answer, clientTimeTaken,
                                                    serverTimeSpent))
                        = roomSubmitAnswer(before, c, answer)
       /\ \A hostId \in Conns :
            /\ roomNextQuestionErr(room, hostId) = roomNextQuestionErr(before, hostId)
            /\ roomNextQuestionErr(room, hostId) = ""
                 => Untimed(roomNextQuestion(room)) = roomNextQuestion(before)
            /\ roomStartQuizErr(room, hostId) = roomStartQuizErr(before, hostId)
            /\ roomStartQuizErr(room, hostId) = ""
                 => Untimed(roomStartQuiz(room)) = roomStartQuiz(before)
       /\ \A c \in Conns :
            /\ joinRoomErr(room, c) = joinRoomErr(before, c)
            /\ joinRoomErr(room, c) = ""
                 => /\ generatePlayerId(room, c) = generatePlayerId(before, c)
                    /\ \A pid \in generatePlayerId(room, c) :
                         Untimed(joinRoom(room, c, pid)) = joinRoom(before, c, pid)

\* Both participants answered both questions; the first reported client
\* times that were taken, the second none, and the second leads.
ScoresIgnoreTimingWitness ==
  \E code \in RoomCodes :
    LET parts == rooms[code].participants
    IN /\ rooms[code].live
       /\ Len(parts) = 2
       /\ \A i \in 1..2 : Len(parts[i].answers) = NumQuestions
       /\ \A j \in 1..NumQuestions :
            /\ parts[1].answers[j].timeSpent # parts[1].answers[j].serverTimeSpent
            /\ parts[2].answers[j].timeSpent = parts[2].answers[j].serverTimeSpent
       /\ parts[2].score > parts[1].score
       /\ roomGetLeaderboard(rooms[code], FALSE)[1].from = parts[2].sock

\* C26: create-room and start-quiz sent by a connection without a verified
\* identity are answered with an authentication error and change no state:
\* no creation is begun, no room exists that such a connection created, no
\* session or timer is touched; join-room sent by such a connection succeeds
\* whenever the room admits the socket.
AnonymousMayOnlyJoin ==
  /\ [](\A c \in pendingCreate : user[c] # 0)
  /\ [](\A code \in RoomCodes : rooms[code].live => rooms[code].hostId # 0)
  /\ [][\A c \in Conns, code \in RoomCodes :
          user[c] = 0 =>
            /\ (CreateRoomBegin(c) \/ StartQuiz(c, code))
                 => /\ FailsWith(c, "AuthError")
                    /\ UNCHANGED <<rooms, activeQuizzes, questionTimers, pendingCreate,
                                   sockRoom, joined>>
            /\ (JoinRoom(c, code) /\ joinRoomErr(rooms[code], c) = "")
                 => /\ Has(rooms'[code].participants, c)
                    /\ Len(rooms'[code].participants) = Len(rooms[code].participants) + 1
                    /\ out'[1].ev = "room-joined"
                    /\ out'[1].to = {c}]_vars

\* A connection without identity has joined a room and has just been refused
\* with an authentication error.
AnonymousMayOnlyJoinWitness ==
  \E c \in Conns, code \in LiveCodes :
    /\ user[c] = 0
    /\ Has(rooms[code].participants, c)
    /\ Len(out) = 1
    /\ out[1].ev = "error"
    /\ out[1].to = {c}
    /\ out[1].msg = "Authentication required to start quiz"

\* C27: a room with an active quiz has its question timer armed, and a room
\* without one, be it in the lobby, completed, cancelled or deleted, has no
\* timer armed.
TimerIffQuizActive ==
  \A code \in RoomCodes :
    questionTimers[code].armed <=> (rooms[code].live /\ isQuizActive(code))

\* RoomService's own timers: one is armed exactly for the rooms whose quiz
\* RoomService.startQuiz has started and that have not completed.
RoomTimerIffActive ==
  \A code \in RoomCodes : code \in timers <=> (rooms[code].live /\ rooms[code].isActive)

\* C28: no question is closed twice or skipped.  Each close-out raises the
\* current question index by exactly 1, and a delayed auto-advance that was
\* left while question i was current changes nothing when it runs after the
\* room has moved past question i.
StaleCallbackHasNoEffect ==
  [][\A d \in Callbacks :
       DelayedAdvance(d)
         => /\ rooms'[d.code].currentQuestion \in
                 {rooms[d.code].currentQuestion, rooms[d.code].currentQuestion + 1}
            /\ rooms[d.code].currentQuestion # d.question
                 => UNCHANGED <<rooms, timers>>]_vars

\* The question timer of DoQuizService, which the running handlers use: every
\* close-out, by next-quiz or by the timer, moves the session from question i
\* to question i + 1 or, from the last question, ends it; and the timer that
\* is armed is always the one armed for the current question.
TimerClosesCurrentQuestionOnly ==
  /\ [](\A code \in RoomCodes :
          (questionTimers[code].armed /\ activeQuizzes[code].exists)
            => questionTimers[code].question = activeQuizzes[code].currentQuestionIndex)
  /\ [][\A code \in RoomCodes :
          LET s == activeQuizzes[code]
              t == activeQuizzes'[code]
          IN (/\ s.exists
              /\ s.isActive
              /\ TimerFire(code) \/ \E c \in Conns : NextQuiz(c, code))
               => IF s.currentQuestionIndex + 1 < NumQuestions
                  THEN t.exists /\ t.currentQuestionIndex = s.currentQuestionIndex + 1
                  ELSE ~t.exists /\ ~questionTimers'[code].armed]_vars

\* Session state and current question index of the quiz of a room.
Progress(s) == <<s.exists, s.isActive, s.currentQuestionIndex>>

\* C29: only a start-quiz or next-quiz of the host, or the expiry of the
\* question timer, changes the session state or the current question index
\* of a room; submit-answer, join-room, the leave of a non-host and
\* get-leaderboard change neither.
OnlyHostOrTimerMovesQuiz ==
  [][\A code \in RoomCodes :
       Progress(activeQuizzes'[code]) # Progress(activeQuizzes[code])
         => \/ TimerFire(code)
            \/ \E c \in Conns :
                 isHost(code, c) /\ (StartQuiz(c, code) \/ NextQuiz(c, code))]_vars

\* The second half of C29 alone, for the running handlers: submit-answer,
\* join-room, the disconnect of a non-host and get-leaderboard leave the
\* session state and the question index of every room as they were.
ParticipantStepsKeepProgress ==
  [][\A c \in Conns :
       (\/ \E code \in RoomCodes, answer \in Options, seen \in Questions :
             SubmitAnswer(c, code, answer, seen)
        \/ \E code \in RoomCodes : JoinRoom(c, code)
        \/ \E code \in RoomCodes : GetLeaderboard(c, code)
        \/ Disconnect(c) /\ \A code \in RoomCodes : ~isHost(code, c))
         => \A code \in RoomCodes :
              Progress(activeQuizzes'[code]) = Progress(activeQuizzes[code])]_vars

\* The same for the earlier handlers: a step that moves a room to another
\* question is a next-quiz of the host's user or the expiry of the question
\* timer, and not the delayed auto-advance a submission leaves behind.
SubmissionClosesNoQuestion ==
  [][\A code \in RoomCodes :
       (rooms[code].live /\ rooms'[code].currentQuestion # rooms[code].currentQuestion)
         => \/ LegacyTimerFire(code)
            \/ \E c \in Conns : user[c] = rooms[code].hostId /\
                                  (LegacyStartQuiz(c, code) \/ LegacyNextQuiz(c, code))]_vars

\* C30: the quiz of a room is the document fetched at createRoom.  While the
\* room lives its questions stay what they were; a quiz session plays the
\* questions of its room, taken when it is started and kept from then on;
\* and a step that updates or deletes the stored quiz changes no room and
\* no session, in the lobby or with the quiz running.
RoomPlaysItsSnapshot ==
  /\ [][\A code \in RoomCodes :
          (rooms[code].live /\ rooms'[code].live)
            => rooms'[code].quizData = rooms[code].quizData]_vars
  /\ [][\A code \in RoomCodes :
          activeQuizzes'[code].exists
            => \/ activeQuizzes'[code].questions = rooms[code].quizData
               \/ /\ activeQuizzes[code].exists
                  /\ activeQuizzes'[code].questions = activeQuizzes[code].questions]_vars
  /\ [][quizzes' # quizzes => UNCHANGED <<rooms, activeQuizzes>>]_vars

\* A room in the lobby and a room with its quiz running whose questions are
\* no longer the stored ones.
RoomPlaysItsSnapshotWitness ==
  \E code \in LiveCodes :
    /\ rooms[code].quizData = TheQuiz
    /\ quizzes # TheQuiz
    /\ activeQuizzes[code].exists
    /\ activeQuizzes[code].questions = TheQuiz
    /\ questionTimers[code].armed

\* C31: within a room no two participants hold the same player id, whatever
\* the joins and leaves.
PlayerIdsUniqueInRoom ==
  \A code \in RoomCodes :
    \A i, j \in DOMAIN rooms[code].participants :
      i # j => rooms[code].participants[i].playerId # rooms[code].participants[j].playerId

\* C32: when the question timer fires for a room that no longer exists, or
\* whose session is gone or no longer active, the callback fails silently:
\* nothing reaches a client and no session or timer changes hands.
TimerFailureIsSilent ==
  [][\A code \in RoomCodes :
       (/\ TimerFire(code)
        /\ \/ ~rooms[code].live
           \/ ~activeQuizzes[code].exists
           \/ ~activeQuizzes[code].isActive)
         => /\ \A i \in DOMAIN out' : out'[i].to = {}
            /\ activeQuizzes'[code] = activeQuizzes[code]]_vars

\* The armed timer of DoQuizService always has its session, so its callback
\* never takes the branch that logs "Quiz session not found".
ArmedTimerHasSession ==
  \A code \in RoomCodes : questionTimers[code].armed => activeQuizzes[code].exists

\* The timer of RoomService fires only for a live room with an active quiz,
\* so the nextQuestion its callback calls does not throw.
RoomTimerNeverThrows ==
  \A code \in timers : roomNextQuestionErr(rooms[code], rooms[code].hostId) = ""

\* C33: where resubmission is rejected, a submission by a participant who
\* has an answer record for the current question fails with Conflict,
\* 'Already answered this question', and leaves every record and score as
\* it was.  This is the statement for the earlier DoQuizService.submitAnswer.
ResubmissionRejected ==
  [][\A code \in RoomCodes, c \in Conns, answer \in Options :
       LET s == activeQuizzes[code]
       IN (/\ EarlierSubmit(code, c, answer)
           /\ s.exists
           /\ s.isActive
           /\ Has(s.participants, c)
           /\ HasAnswer(s.answers[PlayerIdOf(s.participants, c)], s.currentQuestionIndex))
            => /\ thrown' = "Already answered this question"
               /\ ErrorKind(thrown') = "Conflict"
               /\ UNCHANGED activeQuizzes]_vars

\* The same statement for RoomService.submitAnswer.
RoomResubmissionRejected ==
  [][\A code \in RoomCodes, c \in Conns, answer \in Options :
       LET room == rooms[code]
       IN (/\ RoomSubmitAnswer(c, code, answer)
           /\ room.live
           /\ room.isActive
           /\ Has(room.participants, c)
           /\ HasAnswer(room.participants[IndexOf(room.participants, c)].answers,
                        room.currentQuestion))
            => /\ thrown' = "Already answered this question"
               /\ ErrorKind(thrown') = "Conflict"
               /\ UNCHANGED rooms]_vars

\* C34: Completed is terminal.  A start-quiz for a room whose quiz has just
\* completed, by timer expiry or by an advance, fails and leaves the room
\* without session and without timer, so no question becomes current again.
CompletedIsTerminal ==
  [][\A c \in Conns, code \in RoomCodes :
       (/\ StartQuiz(c, code)
        /\ finalResults # <<>>
        /\ rooms[code].live
        /\ ~activeQuizzes[code].exists)
         => /\ Len(out') = 1
            /\ out'[1].ev = "error"
            /\ out'[1].to = {c}
            /\ ~activeQuizzes'[code].exists
            /\ ~questionTimers'[code].armed]_vars

\* The same for RoomService.startQuiz: a room that nextQuestion marked
\* completed is not started again.
CompletedRoomNotRestarted ==
  [][\A hostId \in Conns, code \in RoomCodes :
       (RoomStartQuiz(hostId, code) /\ rooms[code].live /\ rooms[code].isCompleted)
         => thrown' # "" /\ UNCHANGED <<rooms, timers>>]_vars

\* C35: a room code that has no live room, because the room was cancelled
\* or deleted, has no quiz session and no armed question timer, and
\* isQuizActive is false for it.
GoneRoomHasNoSession ==
  \A code \in RoomCodes :
    ~rooms[code].live
      => /\ ~activeQuizzes[code].exists
         /\ ~questionTimers[code].armed
         /\ ~isQuizActive(code)

\* C35, the events: no step delivers next-question, leaderboard-updated or
\* quiz-completed to any connection for a code that has no live room.
GoneRoomEmitsNothing ==
  [][\A code \in RoomCodes :
       (~rooms[code].live /\ ~rooms'[code].live)
         => \A i \in DOMAIN out' :
              out'[i].ev \in {"next-question", "leaderboard-updated", "quiz-completed"}
                => out'[i].to = {}]_vars

\* C35: after a room is cancelled or deleted no session and no timer remain
\* for its code, so nothing more is emitted for it.
GoneRoomIsSilent == []GoneRoomHasNoSession /\ GoneRoomEmitsNothing

\* C36: while a quiz is active in a live room, the participants of the
\* session, from whom answers are accepted, for whom no-answer records are
\* made and who are ranked, are exactly the room's current participants.
SessionFollowsRoster ==
  \A code \in RoomCodes :
    (rooms[code].live /\ isQuizActive(code))
      => \A c \in Conns :
           Has(activeQuizzes[code].participants, c) <=> Has(rooms[code].participants, c)

\* C36, the late joiner: a participant of the room submits during an active
\* quiz and the submission is not refused as coming from a stranger.
LateJoinerCanSubmit ==
  [][\A c \in Conns, code \in RoomCodes, answer \in Options, seen \in Questions :
       (/\ SubmitAnswer(c, code, answer, seen)
        /\ rooms[code].live
        /\ isQuizActive(code)
        /\ user[c] # 0
        /\ Has(rooms[code].participants, c))
         => \A i \in DOMAIN out' : out'[i].msg # "Participant not found"]_vars

\* C37, the states: a connection that has disconnected is a participant of
\* no live room, so in particular no live room has a disconnected host.
DisconnectedInNoRoom ==
  \A c \in Conns, code \in DOMAIN rooms :
    ~connected[c] => ~(rooms[code].live /\ Has(rooms[code].participants, c))

\* C37: the disconnect of a connection removes it from every live room it
\* had created or joined, and no room whose host it was stays live.
DisconnectLeavesEveryRoom ==
  [][\A c \in Conns :
       Disconnect(c)
         => \A code \in DOMAIN rooms :
              ~(rooms'[code].live /\ Has(rooms'[code].participants, c))]_vars

\* C38: the deleteRoom that a completing quiz leaves to run later deletes
\* only the room that completed: when it runs, the room registered under
\* its code, if any, is a completed one, never a room created since.
DelayedDeleteHitsCompletedRoom ==
  [][\A d \in Callbacks :
       (DelayedDelete(d) /\ rooms[d.code].live) => rooms[d.code].isCompleted]_vars

\* C39: every RoomService call that ends in an error, be it joinRoom,
\* startQuiz, submitAnswer or nextQuestion, leaves the registry, every
\* room's participants, scores, answer records and question index, and the
\* timers exactly as they were before the call.
ErrorLeavesStateAlone ==
  [][thrown' # "" => UNCHANGED <<rooms, timers>>]_vars

\* A caller who is not the host has just been refused nextQuestion on a
\* running room whose timer is armed and in which a point has been scored.
ErrorLeavesStateAloneWitness ==
  \E code \in DOMAIN rooms :
    /\ thrown = "Only the host can advance questions"
    /\ rooms[code].live
    /\ rooms[code].isActive
    /\ code \in timers
    /\ \E i \in DOMAIN rooms[code].participants : rooms[code].participants[i].score > 0

\* C39 for DoQuizService.submitAnswer: a submission that throws leaves the
\* session and its question timer as they were.
SubmitErrorLeavesSession ==
  [][\A code \in RoomCodes, c \in Conns, answer \in Options :
       (QuizSubmit(code, c, answer) /\ thrown' # "")
         => UNCHANGED <<activeQuizzes, questionTimers>>]_vars

\* C39 at the socket handlers: a request answered with an error has changed
\* no room, no session and no question timer.
ErrorReplyLeavesStateAlone ==
  [][(Len(out') = 1 /\ out'[1].ev = "error")
       => UNCHANGED <<rooms, activeQuizzes, questionTimers>>]_vars

\* C40, the host: in a live room with participants the connection isHost
\* accepts is the one that created the room, and no other.
HostIsCreator ==
  \A code \in DOMAIN rooms :
    (rooms[code].live /\ Len(rooms[code].participants) > 0)
      => \A c \in Conns : isHost(code, c) <=> (user[c] # 0 /\ user[c] = rooms[code].hostId)

\* C40, the reason given: a room is live only while the connection that
\* created it is connected.
CreatorGoneRoomCancelled ==
  \A code \in DOMAIN rooms, c \in Conns :
    (rooms[code].live /\ user[c] # 0 /\ user[c] = rooms[code].hostId) => connected[c]

\* C40: the host of a live room is its creator and stays so, the room being
\* cancelled as soon as the creator's connection leaves.
HostAuthorityStaysWithCreator == HostIsCreator /\ CreatorGoneRoomCancelled

====
